---- MODULE Spec2Model ----
(***************************************************************************)
(* Model of the typestate request builder ReleaseBlobLeaseBuilder          *)
(* (src/azure/storage/blob/requests/release_blob_lease_builder.rs) and of  *)
(* the Container response decoders (src/azure/storage/container/mod.rs).   *)
(*                                                                         *)
(* Option<T> is modelled as a sequence of length at most one: None is <<>> *)
(* and Some(v) is <<v>>.  Result<T, E> is a record tagged by "ok".  A text *)
(* (str, String) is the sequence of the scalar values of its characters,   *)
(* written Text("...") for printable ASCII; a header value is the sequence *)
(* of its bytes.                                                           *)
(***************************************************************************)
EXTENDS Integers, Sequences, FiniteSets, TLC

(* ------------------------------ bounds --------------------------------- *)
MaxCalls == 5
MaxTimeout == 1
MaxChainCalls == 2

(* --------------------------- Option / Result --------------------------- *)
None == <<>>
Some(v) == <<v>>
IsSome(o) == Len(o) = 1
IsNone(o) == Len(o) = 0

Ok(v) == [ok |-> TRUE, val |-> v]
Err(kind, detail) == [ok |-> FALSE, val |-> <<kind, detail>>]
Panic == "panic"

\* Option::unwrap: the contained value, or a panic when the option is None.
Unwrap(o) == IF IsSome(o) THEN o[1] ELSE Panic

(* --------------------------- typestate markers ------------------------- *)
Yes == "Yes"
No == "No"
ToAssign == {Yes, No}

(* -------------------------------- text --------------------------------- *)
\* A str or String is the sequence of its characters, each character its
\* Unicode scalar value; the bytes of a header value are a sequence of the
\* numbers 0 .. 255.

\* the printable ASCII characters from the space to the underscore (32 ..
\* 95) and from a to the tilde (97 .. 126)
AsciiLow == " !\"#$%&'()*+,-./0123456789:;<=>?@ABCDEFGHIJKLMNOPQRSTUVWXYZ[\\]^_"
AsciiHigh == "abcdefghijklmnopqrstuvwxyz{|}~"

\* the scalar value of a printable ASCII character written as a literal
AsciiCode ==
    [c \in {SubSeq(AsciiLow, i, i) : i \in 1 .. Len(AsciiLow)}
           \cup {SubSeq(AsciiHigh, i, i) : i \in 1 .. Len(AsciiHigh)} |->
        IF \E i \in 1 .. Len(AsciiLow) : SubSeq(AsciiLow, i, i) = c
        THEN 31 + (CHOOSE i \in 1 .. Len(AsciiLow) : SubSeq(AsciiLow, i, i) = c)
        ELSE 96 + (CHOOSE i \in 1 .. Len(AsciiHigh) : SubSeq(AsciiHigh, i, i) = c)]

\* the character written as the literal c
Chr(c) == AsciiCode[c]

\* the text written as the literal s
Text(s) == IF Len(s) = 0 THEN <<>> ELSE [i \in 1 .. Len(s) |-> AsciiCode[SubSeq(s, i, i)]]

\* str::starts_with
starts_with(s, p) == Len(s) >= Len(p) /\ SubSeq(s, 1, Len(p)) = p

\* index of the first occurrence of character c in s at or after i, else 0
RECURSIVE IndexFrom(_, _, _)
IndexFrom(s, c, i) ==
    IF i > Len(s) THEN 0
    ELSE IF s[i] = c THEN i
    ELSE IndexFrom(s, c, i + 1)

\* the pieces of s between occurrences of the character sep
RECURSIVE Split(_, _)
Split(s, sep) ==
    LET i == IndexFrom(s, sep, 1)
    IN  IF i = 0 THEN <<s>>
        ELSE <<SubSeq(s, 1, i - 1)>> \o Split(SubSeq(s, i + 1, Len(s)), sep)

\* format!("{}", n) for an unsigned integer
RECURSIVE DecStr(_)
DecStr(n) == IF n < 10 THEN <<48 + n>> ELSE DecStr(n \div 10) \o <<48 + (n % 10)>>

\* str::to_ascii_lowercase
ToLower(s) == [i \in DOMAIN s |-> IF s[i] >= 65 /\ s[i] <= 90 THEN s[i] + 32 ELSE s[i]]

\* char::encode_utf8: the bytes of one character
Utf8Bytes(cp) ==
    IF cp < 128 THEN <<cp>>
    ELSE IF cp < 2048 THEN <<192 + (cp \div 64), 128 + (cp % 64)>>
    ELSE IF cp < 65536
    THEN <<224 + (cp \div 4096), 128 + ((cp \div 64) % 64), 128 + (cp % 64)>>
    ELSE <<240 + (cp \div 262144), 128 + ((cp \div 4096) % 64),
           128 + ((cp \div 64) % 64), 128 + (cp % 64)>>

\* str::as_bytes: the UTF-8 bytes of a text
RECURSIVE as_bytes(_)
as_bytes(s) == IF Len(s) = 0 THEN <<>> ELSE Utf8Bytes(s[1]) \o as_bytes(Tail(s))

(* --------------------------- percent encoding -------------------------- *)
\* the encode sets of the percent-encoding crate, each a test on one byte,
\* and COMPLETE_ENCODE_SET, the userinfo set with + - &
SIMPLE_ENCODE_SET(b) == b < 32 \/ b > 126
QUERY_ENCODE_SET(b) == SIMPLE_ENCODE_SET(b) \/ b \in {32, 34, 35, 60, 62}
DEFAULT_ENCODE_SET(b) == QUERY_ENCODE_SET(b) \/ b \in {96, 63, 123, 125}
USERINFO_ENCODE_SET(b) ==
    DEFAULT_ENCODE_SET(b) \/ b \in {47, 58, 59, 61, 64, 91, 92, 93, 94, 124}
COMPLETE_ENCODE_SET(b) == USERINFO_ENCODE_SET(b) \/ b \in {43, 45, 38}

\* one hexadecimal digit, upper case
HexDigit(d) == IF d < 10 THEN 48 + d ELSE 55 + d

\* percent_encode_byte: %XX
HexByte(b) == <<37, HexDigit(b \div 16), HexDigit(b % 16)>>

\* one byte as utf8_percent_encode writes it
PercentEncodeByte(b) == IF COMPLETE_ENCODE_SET(b) THEN HexByte(b) ELSE <<b>>

RECURSIVE PercentEncodeBytes(_)
PercentEncodeBytes(bs) ==
    IF Len(bs) = 0 THEN <<>> ELSE PercentEncodeByte(bs[1]) \o PercentEncodeBytes(Tail(bs))

\* utf8_percent_encode(s, COMPLETE_ENCODE_SET), one character: each of its
\* UTF-8 bytes stays when outside the set and becomes %XX when in it
PercentEncodeChar(c) == PercentEncodeBytes(Utf8Bytes(c))

\* utf8_percent_encode(s, COMPLETE_ENCODE_SET)
RECURSIVE utf8_percent_encode(_)
utf8_percent_encode(s) ==
    IF Len(s) = 0 THEN <<>>
    ELSE PercentEncodeChar(s[1]) \o utf8_percent_encode(Tail(s))

(* ------------------------------ input values --------------------------- *)
TheClient == [account |-> Text("acct")]
ContainerNames == {Text("a b")}
BlobNames == {<<98, 32, 50, 38, 120, 63, 37, 96, 233, 8364, 128512>>}
LeaseIds == {Text("lease-1"), Text("lease-2")}
Timeouts == {30 * k : k \in 0 .. MaxTimeout}
ClientRequestIds == {Text("rid-1"), Text("rid-2")}

VARIABLES builder, calls, pc, request, requests_sent, outcome, headers, decoded,
          xml_elem, parsed, chains, chain_calls, chain_log,
          public_access, pa_request, pa_decoded

builderVars == <<builder, calls, pc, request, requests_sent, outcome>>
headerVars == <<headers, decoded>>
xmlVars == <<xml_elem, parsed>>
chainVars == <<chains, chain_calls, chain_log>>
paVars == <<public_access, pa_request, pa_decoded>>
vars == <<builderVars, headerVars, xmlVars, chainVars, paVars>>

(* ------------------------------ the builder ---------------------------- *)
\* ReleaseBlobLeaseBuilder::new
New(client) ==
    [client |-> client,
     p_container_name |-> No,
     container_name |-> None,
     p_blob_name |-> No,
     blob_name |-> None,
     p_lease_id |-> No,
     lease_id |-> None,
     timeout |-> None,
     client_request_id |-> None]

\* impl ClientRequired: every marker combination
client(b) == b.client

\* impl ContainerNameRequired for <Yes, _, _>
container_name(b) == Unwrap(b.container_name)

\* impl BlobNameRequired for <_, Yes, _>
blob_name(b) == Unwrap(b.blob_name)

\* impl LeaseIdRequired for <_, _, Yes>
lease_id(b) == Unwrap(b.lease_id)

\* impl TimeoutOption
timeout(b) == b.timeout

\* impl ClientRequestIdOption
client_request_id(b) == b.client_request_id

\* with_container_name that builds its result from a new builder instead
\* of the one it was called on
with_container_name_FromNew(b, v) ==
    [client |-> b.client,
     p_container_name |-> Yes,
     p_blob_name |-> No,
     p_lease_id |-> No,
     container_name |-> Some(v),
     blob_name |-> None,
     lease_id |-> None,
     timeout |-> None,
     client_request_id |-> None]

with_container_name(b, v) ==
    [client |-> b.client,
     p_container_name |-> Yes,
     p_blob_name |-> b.p_blob_name,
     p_lease_id |-> b.p_lease_id,
     container_name |-> Some(v),
     blob_name |-> b.blob_name,
     lease_id |-> b.lease_id,
     timeout |-> b.timeout,
     client_request_id |-> b.client_request_id]

\* with_blob_name that hands back a builder whose lease id is unset again
with_blob_name_ResetsLease(b, v) ==
    [client |-> b.client,
     p_container_name |-> b.p_container_name,
     p_blob_name |-> Yes,
     p_lease_id |-> No,
     container_name |-> b.container_name,
     blob_name |-> Some(v),
     lease_id |-> None,
     timeout |-> b.timeout,
     client_request_id |-> b.client_request_id]

with_blob_name(b, v) ==
    [client |-> b.client,
     p_container_name |-> b.p_container_name,
     p_blob_name |-> Yes,
     p_lease_id |-> b.p_lease_id,
     container_name |-> b.container_name,
     blob_name |-> Some(v),
     lease_id |-> b.lease_id,
     timeout |-> b.timeout,
     client_request_id |-> b.client_request_id]

\* with_lease_id that carries the old lease id forward instead of the new one
with_lease_id_KeepsOld(b, v) ==
    [client |-> b.client,
     p_container_name |-> b.p_container_name,
     p_blob_name |-> b.p_blob_name,
     p_lease_id |-> Yes,
     container_name |-> b.container_name,
     blob_name |-> b.blob_name,
     lease_id |-> b.lease_id,
     timeout |-> b.timeout,
     client_request_id |-> b.client_request_id]

\* with_lease_id that forgets the timeout
with_lease_id_DropsTimeout(b, v) ==
    [client |-> b.client,
     p_container_name |-> b.p_container_name,
     p_blob_name |-> b.p_blob_name,
     p_lease_id |-> Yes,
     container_name |-> b.container_name,
     blob_name |-> b.blob_name,
     lease_id |-> Some(v),
     timeout |-> None,
     client_request_id |-> b.client_request_id]

with_lease_id(b, v) ==
    [client |-> b.client,
     p_container_name |-> b.p_container_name,
     p_blob_name |-> b.p_blob_name,
     p_lease_id |-> Yes,
     container_name |-> b.container_name,
     blob_name |-> b.blob_name,
     lease_id |-> Some(v),
     timeout |-> b.timeout,
     client_request_id |-> b.client_request_id]

\* with_timeout that keeps a timeout already set
with_timeout_FirstWins(b, v) ==
    [client |-> b.client,
     p_container_name |-> b.p_container_name,
     p_blob_name |-> b.p_blob_name,
     p_lease_id |-> b.p_lease_id,
     container_name |-> b.container_name,
     blob_name |-> b.blob_name,
     lease_id |-> b.lease_id,
     timeout |-> IF IsSome(b.timeout) THEN b.timeout ELSE Some(v),
     client_request_id |-> b.client_request_id]

with_timeout(b, v) ==
    [client |-> b.client,
     p_container_name |-> b.p_container_name,
     p_blob_name |-> b.p_blob_name,
     p_lease_id |-> b.p_lease_id,
     container_name |-> b.container_name,
     blob_name |-> b.blob_name,
     lease_id |-> b.lease_id,
     timeout |-> Some(v),
     client_request_id |-> b.client_request_id]

\* with_client_request_id that forgets the timeout
with_client_request_id_DropsTimeout(b, v) ==
    [client |-> b.client,
     p_container_name |-> b.p_container_name,
     p_blob_name |-> b.p_blob_name,
     p_lease_id |-> b.p_lease_id,
     container_name |-> b.container_name,
     blob_name |-> b.blob_name,
     lease_id |-> b.lease_id,
     timeout |-> None,
     client_request_id |-> Some(v)]

with_client_request_id(b, v) ==
    [client |-> b.client,
     p_container_name |-> b.p_container_name,
     p_blob_name |-> b.p_blob_name,
     p_lease_id |-> b.p_lease_id,
     container_name |-> b.container_name,
     blob_name |-> b.blob_name,
     lease_id |-> b.lease_id,
     timeout |-> b.timeout,
     client_request_id |-> Some(v)]

\* The where-clauses of the five *Support impls: any marker combination.
SupportImpl(b) ==
    /\ b.p_container_name \in ToAssign
    /\ b.p_blob_name \in ToAssign
    /\ b.p_lease_id \in ToAssign

\* finalize offered as soon as the two names are set
FinalizeImpl_TwoMarkers(b) ==
    /\ b.p_container_name = Yes
    /\ b.p_blob_name = Yes

\* impl<'a> ReleaseBlobLeaseBuilder<'a, Yes, Yes, Yes> { fn finalize }
FinalizeImpl(b) ==
    /\ b.p_container_name = Yes
    /\ b.p_blob_name = Yes
    /\ b.p_lease_id = Yes

(* ------------------------------ header maps ---------------------------- *)
\* A HeaderMap holds, under each name, the values appended under that
\* name, in the order they were appended: a function from the names it
\* holds to non-empty sequences of values.
EmptyHeaderMap == [n \in {} |-> <<>>]

\* HeaderMap::get: the first value held under the name
Get(h, n) == IF n \in DOMAIN h THEN Some(h[n][1]) ELSE None

\* HeaderMap::append: the value is added after those the name already holds
HeaderMap_append(h, n, v) ==
    IF n \in DOMAIN h
    THEN [h EXCEPT ![n] = Append(@, v)]
    ELSE [m \in DOMAIN h \cup {n} |-> IF m = n THEN <<v>> ELSE h[m]]

\* HeaderValue::to_str, the test of one byte of the value: visible ASCII,
\* the space or the tab
is_visible_ascii(b) == (b >= 32 /\ b < 127) \/ b = 9

AllVisible(v) == \A i \in 1 .. Len(v) : is_visible_ascii(v[i])

\* HeaderValue::to_str: the text of the value, or an error when a byte of
\* the value is not visible ASCII.
to_str(v) == IF AllVisible(v) THEN Ok(v) ELSE Err("ToStrError", "header")

LAST_MODIFIED == Text("last-modified")
ETAG == Text("etag")
DATE == Text("date")
REQUEST_ID == Text("x-ms-request-id")
LEASE_ID == Text("x-ms-lease-id")
LEASE_ACTION == Text("x-ms-lease-action")
CLIENT_REQUEST_ID == Text("x-ms-client-request-id")

(* --------------------------- RFC 2822 dates ---------------------------- *)
\* the character of s at position i, -1 past the end
At(s, i) == IF i >= 1 /\ i <= Len(s) THEN s[i] ELSE -1

\* char::is_whitespace: the characters with the property White_Space
WhiteSpace ==
    (9 .. 13) \cup {32, 133, 160, 5760} \cup (8192 .. 8202)
    \cup {8232, 8233, 8239, 8287, 12288}

\* str::trim_start: the first position at or after i that holds no white space
RECURSIVE SkipSpaces(_, _)
SkipSpaces(s, i) == IF At(s, i) \in WhiteSpace THEN SkipSpaces(s, i + 1) ELSE i

IsDigit(c) == c >= 48 /\ c <= 57
IsAlpha(c) == (c >= 65 /\ c <= 90) \/ (c >= 97 /\ c <= 122)

\* the count of digits of s from position i on, at most max
RECURSIVE DigitsRun(_, _, _)
DigitsRun(s, i, max) ==
    IF max > 0 /\ IsDigit(At(s, i)) THEN 1 + DigitsRun(s, i + 1, max - 1) ELSE 0

\* the count of ASCII letters of s from position i on
RECURSIVE AlphaRun(_, _)
AlphaRun(s, i) == IF IsAlpha(At(s, i)) THEN 1 + AlphaRun(s, i + 1) ELSE 0

\* scan::number: the number written by the n digits of s from position i
\* on. A number beyond 999999 is kept as 1000000: it is read as a year
\* only, and a year beyond 262142 is out of range whatever it is.
RECURSIVE NumAt(_, _, _)
NumAt(s, i, n) ==
    IF n = 0 THEN 0
    ELSE LET v == 10 * NumAt(s, i, n - 1) + (s[i + n - 1] - 48)
         IN  IF v > 999999 THEN 1000000 ELSE v

WeekdayNames ==
    <<Text("mon"), Text("tue"), Text("wed"), Text("thu"), Text("fri"), Text("sat"),
      Text("sun")>>
MonthNames ==
    <<Text("jan"), Text("feb"), Text("mar"), Text("apr"), Text("may"), Text("jun"),
      Text("jul"), Text("aug"), Text("sep"), Text("oct"), Text("nov"), Text("dec")>>

\* scan::short_weekday / scan::short_month0: the index of the three-letter
\* name that s holds at position i, whatever its case, 0 when there is none
NameAt(names, s, i) ==
    LET w == ToLower(SubSeq(s, i, i + 2))
    IN  IF i + 2 <= Len(s) /\ \E k \in 1 .. Len(names) : names[k] = w
        THEN CHOOSE k \in 1 .. Len(names) : names[k] = w
        ELSE 0

IsLeapYear(y) == (y % 4 = 0 /\ y % 100 # 0) \/ y % 400 = 0

DaysInMonth(y, m) ==
    IF m = 2 THEN (IF IsLeapYear(y) THEN 29 ELSE 28)
    ELSE IF m \in {4, 6, 9, 11} THEN 30 ELSE 31

\* days from 1970-01-01 to the day y-m-d of the proleptic Gregorian calendar
DaysFromCivil(y, m, d) ==
    LET yy == IF m <= 2 THEN y - 1 ELSE y
        era == yy \div 400
        yoe == yy - era * 400
        mp == (m + 9) % 12
        doy == (153 * mp + 2) \div 5 + d - 1
        doe == yoe * 365 + yoe \div 4 - yoe \div 100 + doy
    IN  era * 146097 + doe - 719468

\* the weekday of a day, 1 for Monday .. 7 for Sunday
WeekdayOf(days) == ((days + 3) % 7) + 1

\* the zone names of RFC 2822 with their offsets in hours
ZoneNames ==
    <<<<Text("gmt"), 0>>, <<Text("ut"), 0>>, <<Text("edt"), -4>>, <<Text("est"), -5>>,
      <<Text("cdt"), -5>>, <<Text("cst"), -6>>, <<Text("mdt"), -6>>, <<Text("mst"), -7>>,
      <<Text("pdt"), -7>>, <<Text("pst"), -8>>>>

\* scan::timezone_offset_2822 on a zone written in letters, name being
\* the letters in lower case: the offset in seconds of a zone name, 0 for
\* a single letter other than j, None for any other name
ZoneNameOffset(name) ==
    IF \E k \in 1 .. Len(ZoneNames) : ZoneNames[k][1] = name
    THEN Some(3600 * ZoneNames[CHOOSE k \in 1 .. Len(ZoneNames) : ZoneNames[k][1] = name][2])
    ELSE IF Len(name) = 1 /\ name[1] # 106 THEN Some(0)
    ELSE None

\* scan::comment_2822 after the opening parenthesis: the position after the
\* parenthesis that closes the comment, 0 when the text ends before it
RECURSIVE CommentEnd(_, _, _, _)
CommentEnd(s, i, depth, escaped) ==
    IF i > Len(s) THEN 0
    ELSE IF escaped THEN CommentEnd(s, i + 1, depth, FALSE)
    ELSE IF s[i] = 92 THEN CommentEnd(s, i + 1, depth, TRUE)
    ELSE IF s[i] = 40 THEN CommentEnd(s, i + 1, depth + 1, FALSE)
    ELSE IF s[i] = 41
    THEN IF depth = 1 THEN i + 1 ELSE CommentEnd(s, i + 1, depth - 1, FALSE)
    ELSE CommentEnd(s, i + 1, depth, FALSE)

\* scan::comment_2822 at position i: white space, then a comment in
\* parentheses; the position after it, 0 when there is none
comment_2822(s, i) ==
    IF At(s, SkipSpaces(s, i)) = 40 THEN CommentEnd(s, SkipSpaces(s, i) + 1, 1, FALSE) ELSE 0

\* the position after the comments that stand at position i
RECURSIVE SkipComments(_, _)
SkipComments(s, i) ==
    IF comment_2822(s, i) = 0 THEN i ELSE SkipComments(s, comment_2822(s, i))

\* the error of a text that is no RFC 2822 date
Rfc2822Error == Err("ParseError", "chrono")

\* Parsed::to_datetime followed by DateTime::from_utc(naive_utc): the fields
\* f read from the text and the zone offset give the instant, or the error
\* when a field is out of range, the weekday is not the one of the date or
\* the instant lies beyond the last day a date holds. The instant is the day
\* counted from 1970-01-01, the second of that day and the nanoseconds,
\* 1000000000 of them on a leap second.
Rfc2822Resolve(f, offset) ==
    LET days == DaysFromCivil(f.year, f.mon, f.day)
        sec == IF f.second = 60 THEN 59 ELSE f.second
        utc == f.hour * 3600 + f.minute * 60 + sec - offset
        date == days + (IF utc < 0 THEN -1 ELSE IF utc >= 86400 THEN 1 ELSE 0)
    IN  IF f.year > 262142 THEN Rfc2822Error
        ELSE IF f.day < 1 \/ f.day > DaysInMonth(f.year, f.mon) THEN Rfc2822Error
        ELSE IF f.hour > 23 \/ f.minute > 59 \/ f.second > 60 THEN Rfc2822Error
        ELSE IF offset <= -86400 \/ offset >= 86400 THEN Rfc2822Error
        ELSE IF f.wd > 0 /\ WeekdayOf(days) # f.wd THEN Rfc2822Error
        ELSE IF date > DaysFromCivil(262142, 12, 31) THEN Rfc2822Error
        ELSE Ok([date |-> date, secs |-> utc % 86400,
                 frac |-> IF f.second = 60 THEN 1000000000 ELSE 0])

\* the zone at position i, a name or a sign and four digits; comments may
\* follow it and nothing else
Rfc2822Zone(s, i, f) ==
    LET an == AlphaRun(s, i)
        named == ZoneNameOffset(ToLower(SubSeq(s, i, i + an - 1)))
        sign == IF At(s, i) = 45 THEN -1 ELSE 1
        oh == NumAt(s, i + 1, 2)
        om == NumAt(s, i + 3, 2)
    IN  IF an > 0
        THEN IF named = None \/ SkipComments(s, i + an) # Len(s) + 1 THEN Rfc2822Error
             ELSE Rfc2822Resolve(f, named[1])
        ELSE IF At(s, i) \notin {43, 45} \/ DigitsRun(s, i + 1, 4) # 4 THEN Rfc2822Error
        ELSE IF om > 59 \/ SkipComments(s, i + 5) # Len(s) + 1 THEN Rfc2822Error
        ELSE Rfc2822Resolve(f, sign * (oh * 3600 + om * 60))

\* hour ":" minute [":" second] at position i, then white space and the zone
Rfc2822Time(s, i, f) ==
    LET c == SkipSpaces(s, i + 2)
        m == SkipSpaces(s, c + 1)
        k == SkipSpaces(s, m + 2)
        hasSec == At(s, k) = 58
        e == IF hasSec THEN k + 3 ELSE m + 2
    IN  IF DigitsRun(s, i, 2) # 2 \/ At(s, c) # 58 \/ DigitsRun(s, m, 2) # 2
        THEN Rfc2822Error
        ELSE IF hasSec /\ DigitsRun(s, k + 1, 2) # 2 THEN Rfc2822Error
        ELSE IF SkipSpaces(s, e) = e THEN Rfc2822Error
        ELSE Rfc2822Zone(s, SkipSpaces(s, e),
                 [wd |-> f.wd, day |-> f.day, mon |-> f.mon, year |-> f.year,
                  hour |-> NumAt(s, i, 2), minute |-> NumAt(s, m, 2),
                  second |-> IF hasSec THEN NumAt(s, k + 1, 2) ELSE 0])

\* the year at position i, two digits or more, then white space and the time
Rfc2822Year(s, i, f) ==
    LET yn == DigitsRun(s, i, Len(s))
        yraw == NumAt(s, i, yn)
        year == IF yn = 2 THEN (IF yraw <= 49 THEN yraw + 2000 ELSE yraw + 1900)
                ELSE IF yn = 3 THEN yraw + 1900
                ELSE yraw
    IN  IF yn < 2 \/ SkipSpaces(s, i + yn) = i + yn THEN Rfc2822Error
        ELSE Rfc2822Time(s, SkipSpaces(s, i + yn),
                 [wd |-> f.wd, day |-> f.day, mon |-> f.mon, year |-> year])

\* the month name at position i, then white space and the year
Rfc2822Month(s, i, f) ==
    LET mon == NameAt(MonthNames, s, i)
    IN  IF mon = 0 \/ SkipSpaces(s, i + 3) = i + 3 THEN Rfc2822Error
        ELSE Rfc2822Year(s, SkipSpaces(s, i + 3), [wd |-> f.wd, day |-> f.day, mon |-> mon])

\* the day at position i, one or two digits, then white space and the month
Rfc2822Day(s, i, wd) ==
    LET dn == DigitsRun(s, i, 2)
    IN  IF dn = 0 \/ SkipSpaces(s, i + dn) = i + dn THEN Rfc2822Error
        ELSE Rfc2822Month(s, SkipSpaces(s, i + dn), [wd |-> wd, day |-> NumAt(s, i, dn)])

\* DateTime::parse_from_rfc2822 followed by DateTime::from_utc(naive_utc):
\* the instant the text denotes. The text is
\* [weekday ","] day month year hour ":" minute [":" second] zone *comment,
\* with white space between the parts.
parse_from_rfc2822(s) ==
    LET p0 == SkipSpaces(s, 1)
        wd == NameAt(WeekdayNames, s, p0)
    IN  IF wd > 0 /\ At(s, p0 + 3) # 44 THEN Rfc2822Error
        ELSE Rfc2822Day(s, SkipSpaces(s, IF wd > 0 THEN p0 + 4 ELSE p0), wd)

(* ------------------------------ URI assembly --------------------------- *)
\* generate_container_uri(t, params)
generate_container_uri(b, params) ==
    IF IsSome(params)
    THEN Text("https://") \o client(b).account \o Text(".blob.core.windows.net/")
         \o utf8_percent_encode(container_name(b)) \o Text("?") \o params[1]
    ELSE Text("https://") \o client(b).account \o Text(".blob.core.windows.net/")
         \o utf8_percent_encode(container_name(b))

\* generate_blob_uri(t, params)
generate_blob_uri(b, params) ==
    IF IsSome(params)
    THEN Text("https://") \o client(b).account \o Text(".blob.core.windows.net/")
         \o utf8_percent_encode(container_name(b)) \o Text("/")
         \o utf8_percent_encode(blob_name(b)) \o Text("?") \o params[1]
    ELSE Text("https://") \o client(b).account \o Text(".blob.core.windows.net/")
         \o utf8_percent_encode(container_name(b)) \o Text("/")
         \o utf8_percent_encode(blob_name(b))

\* TimeoutOption::to_uri_parameter
TimeoutOption_to_uri_parameter(b) ==
    IF IsSome(timeout(b)) THEN Some(Text("timeout=") \o DecStr(timeout(b)[1])) ELSE None

\* LeaseIdRequired::add_header
LeaseIdRequired_add_header(b, hdrs) == Append(hdrs, <<LEASE_ID, lease_id(b)>>)

\* ClientRequestIdOption::add_header
ClientRequestIdOption_add_header(b, hdrs) ==
    IF IsSome(client_request_id(b))
    THEN Append(hdrs, <<CLIENT_REQUEST_ID, client_request_id(b)[1]>>)
    ELSE hdrs

\* finalize that leaves the timeout out of the URI
FinalizeUri_NoTimeout(b) == generate_blob_uri(b, Some(Text("comp=lease")))

\* finalize joining the timeout to the URI with a second question mark
FinalizeUri_SecondQuestionMark(b) ==
    LET uri == generate_blob_uri(b, Some(Text("comp=lease")))
        nm == TimeoutOption_to_uri_parameter(b)
    IN  IF IsSome(nm) THEN uri \o Text("?") \o nm[1] ELSE uri

\* finalize, lines 257-261: the request URI
FinalizeUri(b) ==
    LET uri == generate_blob_uri(b, Some(Text("comp=lease")))
        nm == TimeoutOption_to_uri_parameter(b)
    IN  IF IsSome(nm) THEN uri \o Text("&") \o nm[1] ELSE uri

\* a header-writing closure that leaves the lease action out
FinalizeHeaders_NoAction(b) ==
    LET h1 == LeaseIdRequired_add_header(b, <<>>)
    IN  ClientRequestIdOption_add_header(b, h1)

\* finalize, lines 266-270: the header-writing closure
FinalizeHeaders(b) ==
    LET h1 == LeaseIdRequired_add_header(b, <<>>)
        h2 == Append(h1, <<LEASE_ACTION, Text("release")>>)
    IN  ClientRequestIdOption_add_header(b, h2)

\* finalize, lines 263-272: the request handed to Client::perform_request
FinalizeRequest(b) ==
    [uri |-> FinalizeUri(b), method |-> "PUT", headers |-> FinalizeHeaders(b), body |-> None]

(* ------------------------------ responses ------------------------------ *)
StatusOK == 200
StatusCodes == {200, 404}

GoodLeaseHeaders ==
    [n \in {ETAG, LAST_MODIFIED, REQUEST_ID, DATE} |->
        CASE n = ETAG -> <<Text("0x8D6")>>
          [] n = LAST_MODIFIED -> <<Text("Tue, 01 Jan 2019 00:00:00 GMT")>>
          [] n = REQUEST_ID -> <<Text("req-1")>>
          [] n = DATE -> <<Text("Wed, 02 Jan 2019 00:00:00 GMT")>>]

LeaseHeaderMaps ==
    { GoodLeaseHeaders,
      [n \in {LAST_MODIFIED, REQUEST_ID, DATE} |-> GoodLeaseHeaders[n]],
      [GoodLeaseHeaders EXCEPT ![LAST_MODIFIED] = <<Text("2019-01-01T00:00:00Z")>>],
      [GoodLeaseHeaders EXCEPT ![ETAG] = <<Text("0x8D6"), Text("0x8D7")>>] }

\* What the transport hands back for one request: a failure, or a response.
TransportResults ==
    {Err("TransportError", "hyper")}
    \cup {Ok([status |-> st, headers |-> h, body |-> <<>>]) :
            st \in StatusCodes, h \in LeaseHeaderMaps}
    \cup {Ok([status |-> st, headers |-> GoodLeaseHeaders, body |-> Text("<Error/>")]) :
            st \in StatusCodes}

\* check_status_extract_headers_and_body(response, expected)
check_status_extract_headers_and_body(resp, expected) ==
    IF resp.status = expected
    THEN Ok(<<resp.headers, resp.body>>)
    ELSE Err("UnexpectedStatusCode", <<expected, resp.status>>)

\* ReleaseBlobLeaseResponse::from_headers
ReleaseBlobLeaseResponse_from_headers(h) ==
    LET text(n) == IF IsSome(Get(h, n)) THEN to_str(Get(h, n)[1]) ELSE Err("MissingHeaderError", n)
        date(n) == IF text(n).ok THEN parse_from_rfc2822(text(n).val) ELSE text(n)
    IN  IF ~text(ETAG).ok THEN text(ETAG)
        ELSE IF ~date(LAST_MODIFIED).ok THEN date(LAST_MODIFIED)
        ELSE IF ~text(REQUEST_ID).ok THEN text(REQUEST_ID)
        ELSE IF ~date(DATE).ok THEN date(DATE)
        ELSE Ok([etag |-> text(ETAG).val,
                 last_modified |-> date(LAST_MODIFIED).val,
                 request_id |-> text(REQUEST_ID).val,
                 date |-> date(DATE).val])

\* finalize that decodes the headers before it looks at the status
FinalizeChain_DecodeFirst(req) ==
    IF ~req.ok THEN req
    ELSE LET dec == ReleaseBlobLeaseResponse_from_headers(req.val.headers)
             checked == check_status_extract_headers_and_body(req.val, StatusOK)
         IN  IF ~dec.ok THEN dec
             ELSE IF ~checked.ok THEN checked
             ELSE dec

\* finalize, lines 274-277: done(req).from_err().and_then(check status).and_then(decode)
FinalizeChain(req) ==
    IF ~req.ok THEN req
    ELSE LET checked == check_status_extract_headers_and_body(req.val, StatusOK)
         IN  IF ~checked.ok THEN checked
             ELSE ReleaseBlobLeaseResponse_from_headers(checked.val[1])


(* ------------------------- header decode (Container) ------------------- *)
LEASE_STATUS == Text("x-ms-lease-status")
LEASE_STATE == Text("x-ms-lease-state")
LEASE_DURATION == Text("x-ms-lease-duration")
BLOB_PUBLIC_ACCESS == Text("x-ms-blob-public-access")
HAS_IMMUTABILITY_POLICY == Text("x-ms-has-immutability-policy")
HAS_LEGAL_HOLD == Text("x-ms-has-legal-hold")
META_PREFIX == Text("x-ms-meta-")

\* create_enum!: the variants of an enumeration with their string values
PublicAccessEnum == <<<<"None", Text("none")>>, <<"Container", Text("container")>>, <<"Blob", Text("blob")>>>>
LeaseStatusEnum == <<<<"Locked", Text("locked")>>, <<"Unlocked", Text("unlocked")>>>>
LeaseStateEnum ==
    <<<<"Available", Text("available")>>, <<"Leased", Text("leased")>>, <<"Expired", Text("expired")>>,
      <<"Breaking", Text("breaking")>>, <<"Broken", Text("broken")>>>>
LeaseDurationEnum == <<<<"Infinite", Text("infinite")>>, <<"Fixed", Text("fixed")>>>>

\* create_enum!: FromStr for the enumeration
enum_from_str(enum, s) ==
    IF \E i \in 1 .. Len(enum) : enum[i][2] = s
    THEN Ok(enum[CHOOSE i \in 1 .. Len(enum) : enum[i][2] = s][1])
    ELSE Err("ParsingError", s)

\* create_enum!: AsRef<str> for the enumeration
enum_as_ref(enum, v) == enum[CHOOSE i \in 1 .. Len(enum) : enum[i][1] = v][2]

\* bool::from_str
bool_from_str(s) ==
    CASE s = Text("true") -> Ok(TRUE)
      [] s = Text("false") -> Ok(FALSE)
      [] OTHER -> Err("ParseBoolError", s)

\* public access treated as a mandatory header
public_access_from_header_Mandatory(h) ==
    LET pa == Get(h, BLOB_PUBLIC_ACCESS)
    IN  IF IsSome(pa)
        THEN IF ~to_str(pa[1]).ok THEN to_str(pa[1])
             ELSE enum_from_str(PublicAccessEnum, to_str(pa[1]).val)
        ELSE Err("MissingHeaderError", BLOB_PUBLIC_ACCESS)

\* public_access_from_header
public_access_from_header(h) ==
    LET pa == Get(h, BLOB_PUBLIC_ACCESS)
    IN  IF IsSome(pa)
        THEN IF ~to_str(pa[1]).ok THEN to_str(pa[1])
             ELSE enum_from_str(PublicAccessEnum, to_str(pa[1]).val)
        ELSE Ok("None")

\* the values of the PublicAccess enumeration
PublicAccessValues == {PublicAccessEnum[i][1] : i \in 1 .. Len(PublicAccessEnum)}

\* add_header writing the header for every value, none included
PublicAccessRequired_add_header_Always(pa, hdrs) ==
    Append(hdrs, <<BLOB_PUBLIC_ACCESS, enum_as_ref(PublicAccessEnum, pa)>>)

\* PublicAccessRequired::add_header, pa being self.public_access()
PublicAccessRequired_add_header(pa, hdrs) ==
    IF pa # "None"
    THEN Append(hdrs, <<BLOB_PUBLIC_ACCESS, enum_as_ref(PublicAccessEnum, pa)>>)
    ELSE hdrs

\* HeaderName::from_bytes: the bytes a header name is made of (the token
\* characters of HTTP)
is_header_name_byte(b) ==
    \/ b \in {33, 35, 36, 37, 38, 39, 42, 43, 45, 46, 94, 95, 96, 124, 126}
    \/ (b >= 48 /\ b <= 57)
    \/ (b >= 65 /\ b <= 90)
    \/ (b >= 97 /\ b <= 122)

\* HeaderName::from_bytes accepts the name
ValidHeaderName(n) ==
    /\ Len(n) > 0
    /\ Len(n) < 65536
    /\ \A i \in 1 .. Len(n) : is_header_name_byte(n[i])

\* HeaderValue::from_str, the test of one byte of the value
is_valid_value_byte(b) == (b >= 32 /\ b # 127) \/ b = 9

\* HeaderValue::from_str accepts the value
ValidHeaderValue(v) == \A i \in 1 .. Len(v) : is_valid_value_byte(v[i])

\* http::request::Builder::new: no header and no error
Builder_new == [err |-> None, headers |-> EmptyHeaderMap]

\* http::request::Builder::header(name, value): nothing happens to a builder
\* that holds an error; a name or a value that is not accepted puts the
\* builder in its error state; otherwise the value is appended under the
\* name in lower case
Builder_header(b, name, value) ==
    IF IsSome(b.err) THEN b
    ELSE IF ~ValidHeaderName(as_bytes(name)) THEN [b EXCEPT !.err = Some("InvalidHeaderName")]
    ELSE IF ~ValidHeaderValue(as_bytes(value)) THEN [b EXCEPT !.err = Some("InvalidHeaderValue")]
    ELSE [b EXCEPT !.headers = HeaderMap_append(@, ToLower(name), as_bytes(value))]

\* the builder after the calls header(name, value) of hdrs, made in order
\* on a new builder
RECURSIVE BuilderOfWritten(_)
BuilderOfWritten(hdrs) ==
    IF Len(hdrs) = 0 THEN Builder_new
    ELSE LET last == hdrs[Len(hdrs)]
         IN  Builder_header(BuilderOfWritten(SubSeq(hdrs, 1, Len(hdrs) - 1)), last[1], last[2])

\* http::request::Builder::headers_ref after the calls of hdrs: the header
\* map, or None when the builder holds an error
HeaderMapOfWritten(hdrs) ==
    LET b == BuilderOfWritten(hdrs)
    IN  IF IsSome(b.err) THEN None ELSE Some(b.headers)

\* from_response, lines 131-136: the key under which a metadata header is stored
MetadataKey(key) == key

\* from_response, lines 131-136: the metadata scan over all headers
\* The loop visits every value of every name; a value that to_str rejects
\* ends the decode, and of the values of one name the one inserted last
\* stays in the map.  The order among different names has no part in the
\* result: each name is a key of its own and every failure is the same error.
MetadataFromHeaders(h) ==
    LET keys == {k \in DOMAIN h : starts_with(k, META_PREFIX)}
    IN  IF \E k \in keys : \E i \in 1 .. Len(h[k]) : ~to_str(h[k][i]).ok
        THEN Err("ToStrError", "header")
        ELSE Ok([mk \in {MetadataKey(k) : k \in keys} |->
                    LET k == CHOOSE x \in keys : MetadataKey(x) = mk
                    IN  to_str(h[k][Len(h[k])]).val])

\* a missing header reported under the name of the first one checked
RequireHeader_WrongName(h, n) ==
    IF IsSome(Get(h, n)) THEN to_str(Get(h, n)[1]) ELSE Err("MissingHeaderError", LAST_MODIFIED)

\* from_response: match headers.get(NAME) { Some(v) => v.to_str()?,
\*                                          None => return Err(MissingHeaderError(NAME)) }
RequireHeader(h, n) ==
    IF IsSome(Get(h, n)) THEN to_str(Get(h, n)[1]) ELSE Err("MissingHeaderError", n)

\* from_response, lines 114-117: the optional lease duration
LeaseDurationFromHeader(h) ==
    LET ld == Get(h, LEASE_DURATION)
    IN  IF IsSome(ld)
        THEN IF ~to_str(ld[1]).ok THEN to_str(ld[1])
             ELSE IF ~enum_from_str(LeaseDurationEnum, to_str(ld[1]).val).ok
                  THEN enum_from_str(LeaseDurationEnum, to_str(ld[1]).val)
                  ELSE Ok(Some(enum_from_str(LeaseDurationEnum, to_str(ld[1]).val).val))
        ELSE Ok(None)

\* from_response looking at the ETag before Last-Modified
from_response_EtagFirst(name, h) ==
    LET lm_s == RequireHeader(h, LAST_MODIFIED)
        lm == parse_from_rfc2822(lm_s.val)
        et == RequireHeader(h, ETAG)
        ls_s == RequireHeader(h, LEASE_STATUS)
        ls == enum_from_str(LeaseStatusEnum, ls_s.val)
        lst_s == RequireHeader(h, LEASE_STATE)
        lst == enum_from_str(LeaseStateEnum, lst_s.val)
        ld == LeaseDurationFromHeader(h)
        pa == public_access_from_header(h)
        ip_s == RequireHeader(h, HAS_IMMUTABILITY_POLICY)
        ip == bool_from_str(ip_s.val)
        lh_s == RequireHeader(h, HAS_LEGAL_HOLD)
        lh == bool_from_str(lh_s.val)
        md == MetadataFromHeaders(h)
    IN  IF ~et.ok THEN et
        ELSE IF ~lm_s.ok THEN lm_s
        ELSE IF ~lm.ok THEN lm
        ELSE IF ~ls_s.ok THEN ls_s
        ELSE IF ~ls.ok THEN ls
        ELSE IF ~lst_s.ok THEN lst_s
        ELSE IF ~lst.ok THEN lst
        ELSE IF ~ld.ok THEN ld
        ELSE IF ~pa.ok THEN pa
        ELSE IF ~ip_s.ok THEN ip_s
        ELSE IF ~ip.ok THEN ip
        ELSE IF ~lh_s.ok THEN lh_s
        ELSE IF ~lh.ok THEN lh
        ELSE IF ~md.ok THEN md
        ELSE Ok([name |-> name,
                 last_modified |-> lm.val,
                 e_tag |-> et.val,
                 lease_status |-> ls.val,
                 lease_state |-> lst.val,
                 lease_duration |-> ld.val,
                 public_access |-> pa.val,
                 has_immutability_policy |-> ip.val,
                 has_legal_hold |-> lh.val,
                 metadata |-> md.val])

\* from_response looking up every mandatory header before it parses any value
from_response_PresenceFirst(name, h) ==
    LET lm_s == RequireHeader(h, LAST_MODIFIED)
        lm == parse_from_rfc2822(lm_s.val)
        et == RequireHeader(h, ETAG)
        ls_s == RequireHeader(h, LEASE_STATUS)
        ls == enum_from_str(LeaseStatusEnum, ls_s.val)
        lst_s == RequireHeader(h, LEASE_STATE)
        lst == enum_from_str(LeaseStateEnum, lst_s.val)
        ld == LeaseDurationFromHeader(h)
        pa == public_access_from_header(h)
        ip_s == RequireHeader(h, HAS_IMMUTABILITY_POLICY)
        ip == bool_from_str(ip_s.val)
        lh_s == RequireHeader(h, HAS_LEGAL_HOLD)
        lh == bool_from_str(lh_s.val)
        md == MetadataFromHeaders(h)
    IN  IF ~lm_s.ok THEN lm_s
        ELSE IF ~et.ok THEN et
        ELSE IF ~ls_s.ok THEN ls_s
        ELSE IF ~lst_s.ok THEN lst_s
        ELSE IF ~ip_s.ok THEN ip_s
        ELSE IF ~lh_s.ok THEN lh_s
        ELSE IF ~lm.ok THEN lm
        ELSE IF ~ls.ok THEN ls
        ELSE IF ~lst.ok THEN lst
        ELSE IF ~ld.ok THEN ld
        ELSE IF ~pa.ok THEN pa
        ELSE IF ~ip.ok THEN ip
        ELSE IF ~lh.ok THEN lh
        ELSE IF ~md.ok THEN md
        ELSE Ok([name |-> name,
                 last_modified |-> lm.val,
                 e_tag |-> et.val,
                 lease_status |-> ls.val,
                 lease_state |-> lst.val,
                 lease_duration |-> ld.val,
                 public_access |-> pa.val,
                 has_immutability_policy |-> ip.val,
                 has_legal_hold |-> lh.val,
                 metadata |-> md.val])

\* Container::from_response
from_response(name, h) ==
    LET lm_s == RequireHeader(h, LAST_MODIFIED)
        lm == parse_from_rfc2822(lm_s.val)
        et == RequireHeader(h, ETAG)
        ls_s == RequireHeader(h, LEASE_STATUS)
        ls == enum_from_str(LeaseStatusEnum, ls_s.val)
        lst_s == RequireHeader(h, LEASE_STATE)
        lst == enum_from_str(LeaseStateEnum, lst_s.val)
        ld == LeaseDurationFromHeader(h)
        pa == public_access_from_header(h)
        ip_s == RequireHeader(h, HAS_IMMUTABILITY_POLICY)
        ip == bool_from_str(ip_s.val)
        lh_s == RequireHeader(h, HAS_LEGAL_HOLD)
        lh == bool_from_str(lh_s.val)
        md == MetadataFromHeaders(h)
    IN  IF ~lm_s.ok THEN lm_s
        ELSE IF ~lm.ok THEN lm
        ELSE IF ~et.ok THEN et
        ELSE IF ~ls_s.ok THEN ls_s
        ELSE IF ~ls.ok THEN ls
        ELSE IF ~lst_s.ok THEN lst_s
        ELSE IF ~lst.ok THEN lst
        ELSE IF ~ld.ok THEN ld
        ELSE IF ~pa.ok THEN pa
        ELSE IF ~ip_s.ok THEN ip_s
        ELSE IF ~ip.ok THEN ip
        ELSE IF ~lh_s.ok THEN lh_s
        ELSE IF ~lh.ok THEN lh
        ELSE IF ~md.ok THEN md
        ELSE Ok([name |-> name,
                 last_modified |-> lm.val,
                 e_tag |-> et.val,
                 lease_status |-> ls.val,
                 lease_state |-> lst.val,
                 lease_duration |-> ld.val,
                 public_access |-> pa.val,
                 has_immutability_policy |-> ip.val,
                 has_legal_hold |-> lh.val,
                 metadata |-> md.val])

\* Sample values a response may carry under each header name, in the order
\* the response holds them; <<>> is "absent".
HeaderChoices ==
    [h \in {LAST_MODIFIED, ETAG, LEASE_STATUS, LEASE_STATE, LEASE_DURATION,
            BLOB_PUBLIC_ACCESS, HAS_IMMUTABILITY_POLICY, HAS_LEGAL_HOLD,
            Text("x-ms-meta-foo"), Text("x-ms-meta-a-b")} |->
        CASE h = LAST_MODIFIED ->
                {None, Some(Text("Tue, 01 Jan 2019 00:00:00 GMT")),
                 Some(Text("Tue, 01 Jan 2019 01:00:00 +0100")), Some(Text("2019-01-01T00:00:00Z"))}
          [] h = ETAG ->
                {None, Some(Text("\"abc\"")), Some(<<99, 97, 102, 195, 169>>),
                 <<Text("\"abc\""), <<99, 97, 102, 195, 169>>>>}
          [] h = LEASE_STATUS -> {None, Some(Text("locked")), Some(Text("Locked"))}
          [] h = LEASE_STATE ->
                {None, Some(Text("available")), Some(Text("bogus")),
                 <<Text("bogus"), Text("available")>>}
          [] h = LEASE_DURATION -> {None, Some(Text("infinite")), Some(Text("bogus"))}
          [] h = BLOB_PUBLIC_ACCESS -> {None, Some(Text("container")), Some(Text("none")), Some(Text("bogus"))}
          [] h = HAS_IMMUTABILITY_POLICY -> {None, Some(Text("true")), Some(Text("TRUE"))}
          [] h = HAS_LEGAL_HOLD -> {None, Some(Text("false")), Some(Text("1"))}
          [] h = Text("x-ms-meta-foo") ->
                {None, Some(Text("bar")), Some(<<99, 97, 102, 195, 169>>),
                 <<Text("bar"), Text("baz")>>,
                 <<Text("bar"), <<99, 97, 102, 195, 169>>>>,
                 <<<<99, 97, 102, 195, 169>>, Text("bar")>>}
          [] h = Text("x-ms-meta-a-b") -> {None, Some(Text("qux"))}]

\* The header map holding the chosen values.
HeaderMapOf(choice) ==
    [n \in {k \in DOMAIN choice : Len(choice[k]) > 0} |-> choice[n]]

(* --------------------------- XML decode (Container) -------------------- *)
\* xml::Xml::ElementNode(Element {name, children})
ElementNode(name, children) ==
    [kind |-> "ElementNode", name |-> name, text |-> <<>>, children |-> children]

\* xml::Xml::CharacterNode(text)
CharacterNode(text) ==
    [kind |-> "CharacterNode", name |-> <<>>, text |-> text, children |-> <<>>]

IsNamed(n, name) == n.kind = "ElementNode" /\ n.name = name

\* parsing::find_subnodes: the child elements of node called name, in order
find_subnodes(node, name) == SelectSeq(node.children, LAMBDA c : IsNamed(c, name))

\* parsing::traverse(node, path, ignore_empty_leaf)
RECURSIVE traverse(_, _, _)
traverse(node, path, ignore_empty_leaf) ==
    IF Len(path) = 0 THEN Ok(<<node>>)
    ELSE LET vec == find_subnodes(node, path[1])
         IN  IF Len(vec) = 0
             THEN IF Len(path) = 1 /\ ignore_empty_leaf
                  THEN Ok(vec)
                  ELSE Err("PathNotFound", path[1])
             ELSE IF Len(path) = 1 THEN Ok(vec)
             ELSE IF Len(vec) > 1 THEN Err("MultipleNode", path[1])
             ELSE traverse(vec[1], Tail(path), ignore_empty_leaf)

\* parsing::inner_text: the first character-data child of the element
inner_text(node) ==
    LET txt == SelectSeq(node.children, LAMBDA c : c.kind = "CharacterNode")
    IN  IF Len(txt) = 0 THEN Err("TextNotFound", node.name) ELSE Ok(txt[1].text)

\* T::from_str for the target types of cast_must::<T> and cast_optional::<T>
from_str(T, s) ==
    CASE T = "String" -> Ok(s)
      [] T = "DateTime<Utc>" -> parse_from_rfc2822(s)
      [] T = "LeaseStatus" -> enum_from_str(LeaseStatusEnum, s)
      [] T = "LeaseState" -> enum_from_str(LeaseStateEnum, s)
      [] T = "LeaseDuration" -> enum_from_str(LeaseDurationEnum, s)
      [] T = "PublicAccess" -> enum_from_str(PublicAccessEnum, s)
      [] T = "bool" -> bool_from_str(s)

\* parsing::cast_must::<T>(node, path)
cast_must(node, path, T) ==
    LET found == traverse(node, path, FALSE)
        txt == inner_text(found.val[1])
    IN  IF ~found.ok THEN found
        ELSE IF Len(found.val) > 1 THEN Err("MultipleNode", path[Len(path)])
        ELSE IF ~txt.ok THEN txt
        ELSE from_str(T, txt.val)

\* parsing::cast_optional::<T>(node, path): absent when the path is absent
cast_optional(node, path, T) ==
    LET found == traverse(node, path, TRUE)
        txt == inner_text(found.val[1])
        cv == from_str(T, txt.val)
    IN  IF ~found.ok THEN found
        ELSE IF Len(found.val) > 1 THEN Err("MultipleNode", path[Len(path)])
        ELSE IF Len(found.val) = 0 THEN Ok(None)
        ELSE IF ~txt.ok THEN Ok(None)
        ELSE IF ~cv.ok THEN cv
        ELSE Ok(Some(cv.val))

\* concatenation of the children of every element of ms, in order
RECURSIVE ChildrenOfAll(_)
ChildrenOfAll(ms) ==
    IF Len(ms) = 0 THEN <<>> ELSE ms[1].children \o ChildrenOfAll(Tail(ms))

\* a metadata entry keyed by its content instead of its element name
MetadataEntry_Swapped(key) ==
    IF key.kind # "ElementNode"
    THEN Err("UnexpectedXMLError", "Metadata should contain an ElementNode")
    ELSE IF Len(key.children) = 0
    THEN Err("UnexpectedXMLError", "Metadata node should not be empty")
    ELSE IF key.children[1].kind # "CharacterNode"
    THEN Err("UnexpectedXMLError",
             "Metadata node should contain a CharacterNode with metadata value")
    ELSE Ok(<<key.name, key.name>>)

\* a metadata entry that reads an empty element as an empty value
MetadataEntry_EmptyIsBlank(key) ==
    IF key.kind # "ElementNode"
    THEN Err("UnexpectedXMLError", "Metadata should contain an ElementNode")
    ELSE IF Len(key.children) = 0
    THEN Ok(<<key.name, <<>>>>)
    ELSE IF key.children[1].kind # "CharacterNode"
    THEN Err("UnexpectedXMLError",
             "Metadata node should contain a CharacterNode with metadata value")
    ELSE Ok(<<key.name, key.children[1].text>>)

\* parse, lines 177-201: the check of one child of a Metadata node; the
\* error it returns, or Ok(<<key, content>>)
MetadataEntry(key) ==
    IF key.kind # "ElementNode"
    THEN Err("UnexpectedXMLError", "Metadata should contain an ElementNode")
    ELSE IF Len(key.children) = 0
    THEN Err("UnexpectedXMLError", "Metadata node should not be empty")
    ELSE IF key.children[1].kind # "CharacterNode"
    THEN Err("UnexpectedXMLError",
             "Metadata node should contain a CharacterNode with metadata value")
    ELSE Ok(<<key.name, key.children[1].text>>)

\* parse, lines 171-208: the metadata block
MetadataFromXml(elem) ==
    LET metadata == traverse(elem, <<Text("Metadata")>>, TRUE)
        kids == ChildrenOfAll(metadata.val)
        bad == {i \in 1 .. Len(kids) : ~MetadataEntry(kids[i]).ok}
        first == CHOOSE i \in bad : \A j \in bad : i <= j
        last(k) == CHOOSE i \in 1 .. Len(kids) :
                      /\ kids[i].name = k
                      /\ \A j \in 1 .. Len(kids) : kids[j].name = k => j <= i
    IN  IF ~metadata.ok THEN metadata
        ELSE IF bad # {} THEN MetadataEntry(kids[first])
        ELSE Ok([k \in {kids[i].name : i \in 1 .. Len(kids)} |->
                    MetadataEntry(kids[last(k)]).val[2]])

\* Container::parse
parse(elem) ==
    LET name == cast_must(elem, <<Text("Name")>>, "String")
        last_modified == cast_must(elem, <<Text("Properties"), Text("Last-Modified")>>, "DateTime<Utc>")
        e_tag == cast_must(elem, <<Text("Properties"), Text("Etag")>>, "String")
        lease_state == cast_must(elem, <<Text("Properties"), Text("LeaseState")>>, "LeaseState")
        lease_duration ==
            cast_optional(elem, <<Text("Properties"), Text("LeaseDuration")>>, "LeaseDuration")
        lease_status == cast_must(elem, <<Text("Properties"), Text("LeaseStatus")>>, "LeaseStatus")
        pa == cast_optional(elem, <<Text("Properties"), Text("PublicAccess")>>, "PublicAccess")
        has_immutability_policy ==
            cast_must(elem, <<Text("Properties"), Text("HasImmutabilityPolicy")>>, "bool")
        has_legal_hold == cast_must(elem, <<Text("Properties"), Text("HasLegalHold")>>, "bool")
        metadata == MetadataFromXml(elem)
    IN  IF ~name.ok THEN name
        ELSE IF ~last_modified.ok THEN last_modified
        ELSE IF ~e_tag.ok THEN e_tag
        ELSE IF ~lease_state.ok THEN lease_state
        ELSE IF ~lease_duration.ok THEN lease_duration
        ELSE IF ~lease_status.ok THEN lease_status
        ELSE IF ~pa.ok THEN pa
        ELSE IF ~has_immutability_policy.ok THEN has_immutability_policy
        ELSE IF ~has_legal_hold.ok THEN has_legal_hold
        ELSE IF ~metadata.ok THEN metadata
        ELSE Ok([name |-> name.val,
                 last_modified |-> last_modified.val,
                 e_tag |-> e_tag.val,
                 lease_status |-> lease_status.val,
                 lease_state |-> lease_state.val,
                 lease_duration |-> lease_duration.val,
                 public_access |-> IF IsSome(pa.val) THEN pa.val[1] ELSE "None",
                 has_immutability_policy |-> has_immutability_policy.val,
                 has_legal_hold |-> has_legal_hold.val,
                 metadata |-> metadata.val])

\* <name>text</name>
Leaf(name, text) == ElementNode(name, <<CharacterNode(text)>>)

\* Sample shapes of each child of <Properties>: a sequence of zero or one node.
XmlChoices ==
    [f \in {Text("Name"), Text("Last-Modified"), Text("Etag"), Text("LeaseState"), Text("LeaseDuration"), Text("LeaseStatus"),
            Text("PublicAccess"), Text("HasImmutabilityPolicy"), Text("HasLegalHold")} |->
        CASE f = Text("Name") -> {<<>>, <<Leaf(f, Text("c1"))>>}
          [] f = Text("Last-Modified") ->
                {<<>>, <<Leaf(f, Text("Tue, 01 Jan 2019 01:00:00 +0100"))>>,
                 <<Leaf(f, Text("2019-01-01T00:00:00Z"))>>}
          [] f = Text("Etag") -> {<<>>, <<Leaf(f, Text("\"abc\""))>>}
          [] f = Text("LeaseState") -> {<<>>, <<Leaf(f, Text("available"))>>}
          [] f = Text("LeaseDuration") ->
                {<<>>, <<Leaf(f, Text("infinite"))>>, <<Leaf(f, Text("bogus"))>>}
          [] f = Text("LeaseStatus") -> {<<>>, <<Leaf(f, Text("unlocked"))>>, <<Leaf(f, Text("bogus"))>>}
          [] f = Text("PublicAccess") -> {<<>>, <<Leaf(f, Text("blob"))>>, <<Leaf(f, Text("bogus"))>>}
          [] f = Text("HasImmutabilityPolicy") -> {<<>>, <<Leaf(f, Text("false"))>>}
          [] f = Text("HasLegalHold") -> {<<>>, <<Leaf(f, Text("true"))>>, <<Leaf(f, Text("yes"))>>}]

\* Sample shapes of the Metadata part of a <Container>: zero or one node.
MetadataChoices ==
    { <<>>,
      <<ElementNode(Text("Metadata"), <<>>)>>,
      <<ElementNode(Text("Metadata"), <<Leaf(Text("foo"), Text("bar"))>>)>>,
      <<ElementNode(Text("Metadata"), <<Leaf(Text("foo"), Text("bar")), Leaf(Text("baz"), Text("qux"))>>)>>,
      <<ElementNode(Text("Metadata"), <<Leaf(Text("foo"), Text("bar")), Leaf(Text("foo"), Text("baz"))>>)>>,
      <<ElementNode(Text("Metadata"), <<ElementNode(Text("foo"), <<>>)>>)>>,
      <<ElementNode(Text("Metadata"), <<ElementNode(Text("foo"), <<Leaf(Text("x"), Text("y"))>>)>>)>>,
      <<ElementNode(Text("Metadata"),
            <<ElementNode(Text("foo"), <<CharacterNode(Text("bar")), ElementNode(Text("x"), <<>>)>>)>>)>>,
      <<ElementNode(Text("Metadata"), <<CharacterNode(Text("text"))>>)>> }

\* the builder chains started from the one client
ChainIds == {1, 2}

Init ==
    /\ builder = New(TheClient)
    /\ calls = <<>>
    /\ pc = "building"
    /\ request = None
    /\ requests_sent = 0
    /\ outcome = None
    /\ headers = None
    /\ decoded = None
    /\ xml_elem = None
    /\ parsed = None
    /\ chains = [c \in ChainIds |-> New(TheClient)]
    /\ chain_calls = [c \in ChainIds |-> <<>>]
    /\ chain_log = <<>>
    /\ public_access = None
    /\ pa_request = None
    /\ pa_decoded = None

Mutate(op, v, nb) ==
    /\ pc = "building"
    /\ Len(calls) < MaxCalls
    /\ SupportImpl(builder)
    /\ builder' = nb
    /\ calls' = Append(calls, <<op, v>>)
    /\ UNCHANGED <<pc, request, requests_sent, outcome, headerVars, xmlVars, chainVars, paVars>>

WithContainerName ==
    \E v \in ContainerNames : Mutate("with_container_name", v, with_container_name(builder, v))

WithBlobName ==
    \E v \in BlobNames : Mutate("with_blob_name", v, with_blob_name(builder, v))

WithLeaseId ==
    \E v \in LeaseIds : Mutate("with_lease_id", v, with_lease_id(builder, v))

WithTimeout ==
    \E v \in Timeouts : Mutate("with_timeout", v, with_timeout(builder, v))

WithClientRequestId ==
    \E v \in ClientRequestIds :
        Mutate("with_client_request_id", v, with_client_request_id(builder, v))

\* finalize(self), lines 256-272: builds the request, hands it to
\* Client::perform_request and returns the future of the outcome, which
\* nothing has driven yet.
Finalize ==
    /\ pc = "building"
    /\ FinalizeImpl(builder)
    /\ request' = Some(FinalizeRequest(builder))
    /\ requests_sent' = requests_sent + 1
    /\ pc' = "pending"
    /\ UNCHANGED <<builder, calls, outcome, headerVars, xmlVars, chainVars, paVars>>

\* what the transport hands back, with what the future chain makes of it
TransportOutcomes ==
    {[transport |-> t, result |-> FinalizeChain(t)] : t \in TransportResults}

\* the future asking for the request again when its outcome is an error
FutureResolves_RetryOnError ==
    /\ pc = "pending"
    /\ \E o \in TransportOutcomes :
          /\ outcome' = Some(o)
          /\ requests_sent' = requests_sent + (IF o.result.ok THEN 0 ELSE 1)
    /\ pc' = "done"
    /\ UNCHANGED <<builder, calls, request, headerVars, xmlVars, chainVars, paVars>>

\* finalize, lines 274-277: the caller drives the returned future; the
\* transport answers and the status check and the header decode run on it.
FutureResolves ==
    /\ pc = "pending"
    /\ \E o \in TransportOutcomes : outcome' = Some(o)
    /\ pc' = "done"
    /\ UNCHANGED <<builder, calls, request, requests_sent, headerVars, xmlVars,
                   chainVars, paVars>>

\* the caller drops the returned future without driving it: no outcome
FutureDropped ==
    /\ pc = "pending"
    /\ pc' = "dropped"
    /\ UNCHANGED <<builder, calls, request, requests_sent, outcome, headerVars, xmlVars,
                   chainVars, paVars>>

Next ==
    \/ WithContainerName
    \/ WithBlobName
    \/ WithLeaseId
    \/ WithTimeout
    \/ WithClientRequestId
    \/ Finalize
    \/ FutureResolves
    \/ FutureDropped

Spec == Init /\ [][Next]_vars

(* --------- several builder chains from one client, interleaved -------- *)
\* the arguments chain c passes to its mutators
ChainArgs(c, op) ==
    CASE op = "with_container_name" -> ContainerNames
      [] op = "with_blob_name" -> BlobNames
      [] op = "with_lease_id" -> {IF c = 1 THEN Text("lease-1") ELSE Text("lease-2")}
      [] op = "with_timeout" -> {IF c = 1 THEN 0 ELSE 30}
      [] op = "with_client_request_id" -> {IF c = 1 THEN Text("rid-1") ELSE Text("rid-2")}

\* with_*(self, ..) -> Self::O: the builder of chain c is moved into the
\* mutator and the chain goes on with the value returned
StepChain(chs, c, nb) == [chs EXCEPT ![c] = nb]

ChainMutate(c, op, v, nb) ==
    /\ Len(chain_calls[c]) < MaxChainCalls
    /\ SupportImpl(chains[c])
    /\ chains' = StepChain(chains, c, nb)
    /\ chain_calls' = [chain_calls EXCEPT ![c] = Append(@, <<op, v>>)]
    /\ chain_log' = Append(chain_log, c)
    /\ UNCHANGED <<builderVars, headerVars, xmlVars, paVars>>

ChainWithContainerName ==
    \E c \in ChainIds : \E v \in ChainArgs(c, "with_container_name") :
        ChainMutate(c, "with_container_name", v, with_container_name(chains[c], v))

ChainWithBlobName ==
    \E c \in ChainIds : \E v \in ChainArgs(c, "with_blob_name") :
        ChainMutate(c, "with_blob_name", v, with_blob_name(chains[c], v))

ChainWithLeaseId ==
    \E c \in ChainIds : \E v \in ChainArgs(c, "with_lease_id") :
        ChainMutate(c, "with_lease_id", v, with_lease_id(chains[c], v))

ChainWithTimeout ==
    \E c \in ChainIds : \E v \in ChainArgs(c, "with_timeout") :
        ChainMutate(c, "with_timeout", v, with_timeout(chains[c], v))

ChainWithClientRequestId ==
    \E c \in ChainIds : \E v \in ChainArgs(c, "with_client_request_id") :
        ChainMutate(c, "with_client_request_id", v, with_client_request_id(chains[c], v))

NextChains ==
    \/ ChainWithContainerName
    \/ ChainWithBlobName
    \/ ChainWithLeaseId
    \/ ChainWithTimeout
    \/ ChainWithClientRequestId

SpecChains == Init /\ [][NextChains]_vars

(* ------------- response decoding as a system: one decode per input ---- *)
\* The input of one run: a header map to decode, a parsed XML element to
\* decode, or a public access value to write as a header and read back.
InitDecode ==
    /\ builder = New(TheClient)
    /\ calls = <<>>
    /\ pc = "building"
    /\ request = None
    /\ requests_sent = 0
    /\ outcome = None
    /\ decoded = None
    /\ parsed = None
    /\ chains = [c \in ChainIds |-> New(TheClient)]
    /\ chain_calls = [c \in ChainIds |-> <<>>]
    /\ chain_log = <<>>
    /\ pa_request = None
    /\ pa_decoded = None
    /\ \/ /\ xml_elem = None
          /\ public_access = None
          /\ \E lm \in HeaderChoices[LAST_MODIFIED], et \in HeaderChoices[ETAG],
                ls \in HeaderChoices[LEASE_STATUS], lst \in HeaderChoices[LEASE_STATE],
                ld \in HeaderChoices[LEASE_DURATION], pa \in HeaderChoices[BLOB_PUBLIC_ACCESS],
                ip \in HeaderChoices[HAS_IMMUTABILITY_POLICY],
                lh \in HeaderChoices[HAS_LEGAL_HOLD],
                m1 \in HeaderChoices[Text("x-ms-meta-foo")], m2 \in HeaderChoices[Text("x-ms-meta-a-b")] :
                  headers = Some(HeaderMapOf(
                      (LAST_MODIFIED :> lm) @@ (ETAG :> et) @@ (LEASE_STATUS :> ls)
                      @@ (LEASE_STATE :> lst) @@ (LEASE_DURATION :> ld)
                      @@ (BLOB_PUBLIC_ACCESS :> pa) @@ (HAS_IMMUTABILITY_POLICY :> ip)
                      @@ (HAS_LEGAL_HOLD :> lh) @@ (Text("x-ms-meta-foo") :> m1)
                      @@ (Text("x-ms-meta-a-b") :> m2)))
       \/ /\ headers = None
          /\ xml_elem = None
          /\ \E pa \in PublicAccessValues : public_access = Some(pa)
       \/ /\ headers = None
          /\ public_access = None
          /\ \E nm \in XmlChoices[Text("Name")], lm \in XmlChoices[Text("Last-Modified")],
                et \in XmlChoices[Text("Etag")], lst \in XmlChoices[Text("LeaseState")],
                ld \in XmlChoices[Text("LeaseDuration")], ls \in XmlChoices[Text("LeaseStatus")],
                pa \in XmlChoices[Text("PublicAccess")],
                ip \in XmlChoices[Text("HasImmutabilityPolicy")],
                lh \in XmlChoices[Text("HasLegalHold")], md \in MetadataChoices :
                  xml_elem = Some(ElementNode(Text("Container"),
                      nm \o <<ElementNode(Text("Properties"),
                                  lm \o et \o ls \o lst \o ld \o pa \o ip \o lh)>> \o md))

FromResponse ==
    /\ decoded = None
    /\ IsSome(headers)
    /\ \E name \in ContainerNames : decoded' = Some(from_response(name, headers[1]))
    /\ UNCHANGED <<builderVars, headers, xmlVars, chainVars, paVars>>

Parse ==
    /\ parsed = None
    /\ IsSome(xml_elem)
    /\ parsed' = Some(parse(xml_elem[1]))
    /\ UNCHANGED <<builderVars, headerVars, xml_elem, chainVars, paVars>>

\* The calls of header made on a request builder before add_header is
\* handed the builder: none, another header, a public access header
\* written under a name in mixed case, a value that is not accepted, a
\* name that is not accepted, and a name of more than one byte per character.
PriorHeaderCalls ==
    { <<>>,
      <<<<Text("x-ms-version"), Text("2018-03-28")>>>>,
      <<<<Text("X-Ms-Blob-Public-Access"), Text("blob")>>>>,
      <<<<Text("x-ms-version"), Text("2018-03-28")>>,
        <<Text("x-ms-client-request-id"), <<114, 105, 100, 10, 49>>>>>>,
      <<<<Text("x ms version"), Text("2018-03-28")>>>>,
      <<<<Text("x-ms-meta-caf") \o <<233>>, Text("v")>>>> }

\* add_header is handed a builder holding the chosen public access and a
\* request builder on which some calls of header were made
AddPublicAccessHeader ==
    /\ IsSome(public_access)
    /\ pa_request = None
    /\ \E prior \in PriorHeaderCalls :
          pa_request' = Some([before |-> prior,
                              after |-> PublicAccessRequired_add_header(public_access[1], prior)])
    /\ UNCHANGED <<builderVars, headerVars, xmlVars, chainVars, public_access, pa_decoded>>

\* the header map of a builder that holds no error is decoded
ReadPublicAccessHeader ==
    /\ IsSome(pa_request)
    /\ pa_decoded = None
    /\ IsSome(HeaderMapOfWritten(pa_request[1].after))
    /\ pa_decoded' = Some(public_access_from_header(HeaderMapOfWritten(pa_request[1].after)[1]))
    /\ UNCHANGED <<builderVars, headerVars, xmlVars, chainVars, public_access, pa_request>>

NextDecode == FromResponse \/ Parse \/ AddPublicAccessHeader \/ ReadPublicAccessHeader

SpecDecode == InitDecode /\ [][NextDecode]_vars
(* ======================= properties of the builder ===================== *)
AllThreeSet(b) == b.p_container_name = Yes /\ b.p_blob_name = Yes /\ b.p_lease_id = Yes

LastCall == calls[Len(calls)]
LastOp == IF Len(calls) = 0 THEN "new" ELSE LastCall[1]

\* C1: finalize can be taken only in the marker state (Yes, Yes, Yes); in
\* each of the other seven marker combinations it is not enabled, and a
\* finalized builder has all three markers set.
C1_FinalizeOnlyWhenAllSet ==
    /\ (ENABLED Finalize) => AllThreeSet(builder)
    /\ pc # "building" => AllThreeSet(builder)

C1_Witness == pc = "done" /\ requests_sent = 1 /\ AllThreeSet(builder) /\ Len(calls) = 3

\* C2: a mandatory field whose marker is set has a value in its slot, so
\* the required accessors return a supplied value and unwrap does not panic.
C2_SetMarkerHasValue ==
    /\ builder.p_container_name = Yes =>
          IsSome(builder.container_name) /\ container_name(builder) \in ContainerNames
    /\ builder.p_blob_name = Yes =>
          IsSome(builder.blob_name) /\ blob_name(builder) \in BlobNames
    /\ builder.p_lease_id = Yes =>
          IsSome(builder.lease_id) /\ lease_id(builder) \in LeaseIds

C2_Witness ==
    /\ pc = "building"
    /\ AllThreeSet(builder)
    /\ container_name(builder) = Text("a b")
    /\ lease_id(builder) = Text("lease-2")

\* C3: a mandatory mutator marks exactly its own field set, stores the
\* supplied value there, and carries every other field forward unchanged.
C3_MandatoryMutatorFrame ==
    [][Len(calls') = Len(calls) + 1 =>
         LET op == calls'[Len(calls')][1]
             v == calls'[Len(calls')][2]
         IN  /\ op = "with_container_name" =>
                  builder' = [builder EXCEPT !.p_container_name = Yes,
                                             !.container_name = Some(v)]
             /\ op = "with_blob_name" =>
                  builder' = [builder EXCEPT !.p_blob_name = Yes, !.blob_name = Some(v)]
             /\ op = "with_lease_id" =>
                  builder' = [builder EXCEPT !.p_lease_id = Yes, !.lease_id = Some(v)]]_vars

C3_Witness ==
    /\ LastOp = "with_lease_id"
    /\ builder.lease_id = Some(Text("lease-1"))
    /\ builder.p_container_name = Yes
    /\ builder.p_blob_name = No
    /\ IsSome(builder.timeout)
    /\ IsSome(builder.client_request_id)

\* C4: with_timeout and with_client_request_id can be called in every
\* mandatory-marker state, and each changes only its own optional slot.
C4_OptionalMutatorFrame ==
    /\ [](pc = "building" /\ Len(calls) < MaxCalls =>
             (ENABLED WithTimeout) /\ (ENABLED WithClientRequestId))
    /\ [][Len(calls') = Len(calls) + 1 =>
            LET op == calls'[Len(calls')][1]
                v == calls'[Len(calls')][2]
            IN  /\ op = "with_timeout" =>
                     builder' = [builder EXCEPT !.timeout = Some(v)]
                /\ op = "with_client_request_id" =>
                     builder' = [builder EXCEPT !.client_request_id = Some(v)]]_vars

C4_Witness ==
    /\ LastOp = "with_client_request_id"
    /\ builder.p_container_name = No
    /\ builder.p_blob_name = Yes
    /\ builder.p_lease_id = No
    /\ IsSome(builder.timeout)
    /\ builder.client_request_id = Some(Text("rid-2"))
(* ===================== properties of the built request ================= *)
\* the part of a URI after its first "?"
QueryOf(uri) ==
    LET q == IndexFrom(uri, Chr("?"), 1)
    IN  IF q = 0 THEN <<>> ELSE SubSeq(uri, q + 1, Len(uri))

\* the key=value pairs of the query string of a URI
QueryPairs(uri) == Split(QueryOf(uri), Chr("&"))

OptionalOps == {"with_timeout", "with_client_request_id"}

Applied(op) == \E i \in 1 .. Len(calls) : calls[i][1] = op

\* the argument of the last call of op
LastArg(op) ==
    LET last == CHOOSE i \in 1 .. Len(calls) :
                   /\ calls[i][1] = op
                   /\ \A j \in 1 .. Len(calls) : calls[j][1] = op => j <= i
    IN  calls[last][2]

ApplyCall(b, c) ==
    CASE c[1] = "with_container_name" -> with_container_name(b, c[2])
      [] c[1] = "with_blob_name" -> with_blob_name(b, c[2])
      [] c[1] = "with_lease_id" -> with_lease_id(b, c[2])
      [] c[1] = "with_timeout" -> with_timeout(b, c[2])
      [] c[1] = "with_client_request_id" -> with_client_request_id(b, c[2])

\* the builder a chain of calls produces from new
RECURSIVE Replay(_)
Replay(cs) ==
    IF Len(cs) = 0 THEN New(TheClient)
    ELSE ApplyCall(Replay(SubSeq(cs, 1, Len(cs) - 1)), cs[Len(cs)])

\* the same calls with those of different fields reordered: grouped by
\* field, the calls of one field keeping their relative order
GroupedByField(cs) ==
    SelectSeq(cs, LAMBDA c : c[1] = "with_client_request_id")
    \o SelectSeq(cs, LAMBDA c : c[1] = "with_timeout")
    \o SelectSeq(cs, LAMBDA c : c[1] = "with_lease_id")
    \o SelectSeq(cs, LAMBDA c : c[1] = "with_blob_name")
    \o SelectSeq(cs, LAMBDA c : c[1] = "with_container_name")

HeaderCount(hdrs, name) == Cardinality({i \in 1 .. Len(hdrs) : hdrs[i][1] = name})

\* C5 as stated: the query string of the finalized request holds exactly
\* one key=value pair per applied optional field (beside the fixed marker).
C5_Original_OnePairPerOptionalField ==
    IsSome(request) =>
        Len(QueryPairs(request[1].uri)) - 1 = Cardinality({op \in OptionalOps : Applied(op)})

\* C5 amended: the query string holds, after the marker, exactly one
\* timeout pair when with_timeout was applied (with the value of its last
\* call) and no pair for the client request id, which finalize hands to the
\* header writer instead; the request does not depend on the order in which
\* mutators of different fields were called.
C5_QueryHoldsTimeoutOnly ==
    IsSome(request) =>
        /\ QueryPairs(request[1].uri) =
              IF Applied("with_timeout")
              THEN <<Text("comp=lease"), Text("timeout=") \o DecStr(LastArg("with_timeout"))>>
              ELSE <<Text("comp=lease")>>
        /\ HeaderCount(request[1].headers, CLIENT_REQUEST_ID) =
              IF Applied("with_client_request_id") THEN 1 ELSE 0
        /\ request[1] = FinalizeRequest(Replay(GroupedByField(calls)))

C5_Witness ==
    /\ pc = "done"
    /\ calls[1][1] = "with_timeout"
    /\ calls[2][1] = "with_client_request_id"
    /\ QueryPairs(request[1].uri) = <<Text("comp=lease"), Text("timeout=30")>>
    /\ blob_name(builder) = <<98, 32, 50, 38, 120, 63, 37, 96, 233, 8364, 128512>>

(* ===================== properties of the finalize outcome ============== *)
WellFormedLeaseHeaders(h) ==
    /\ {ETAG, LAST_MODIFIED, REQUEST_ID, DATE} \subseteq DOMAIN h
    /\ \A n \in {LAST_MODIFIED, DATE} :
          h[n][1] \in {Text("Tue, 01 Jan 2019 00:00:00 GMT"), Text("Wed, 02 Jan 2019 00:00:00 GMT")}

\* C6: a 200 OK response with well-formed headers yields Ok(entity); any
\* other status yields UnexpectedStatusCode whatever its headers and body.
C6_StatusDecidesOutcome ==
    (pc = "done" /\ outcome[1].transport.ok) =>
        LET resp == outcome[1].transport.val
            res == outcome[1].result
        IN  /\ (resp.status = 200 /\ WellFormedLeaseHeaders(resp.headers)) =>
                  res.ok /\ res.val.etag = resp.headers[ETAG][1]
            /\ resp.status # 200 =>
                  ~res.ok /\ res.val[1] = "UnexpectedStatusCode"
                          /\ res.val[2] = <<200, resp.status>>

C6_Witness ==
    /\ pc = "done"
    /\ outcome[1].transport.ok
    /\ outcome[1].transport.val.status = 404
    /\ WellFormedLeaseHeaders(outcome[1].transport.val.headers)
    /\ outcome[1].transport.val.body = Text("<Error/>")
    /\ ~outcome[1].result.ok
(* ===================== properties of the header decode ================= *)
MandatoryHeaders ==
    {LAST_MODIFIED, ETAG, LEASE_STATUS, LEASE_STATE, HAS_IMMUTABILITY_POLICY, HAS_LEGAL_HOLD}

OptionalHeaders == {LEASE_DURATION, BLOB_PUBLIC_ACCESS}

\* the values of a header that are well-formed for the field it feeds
WellFormedValues(n) ==
    CASE n = LAST_MODIFIED ->
            {Text("Tue, 01 Jan 2019 00:00:00 GMT"), Text("Tue, 01 Jan 2019 01:00:00 +0100")}
      [] n = ETAG -> {Text("\"abc\"")}
      [] n = LEASE_STATUS -> {Text("locked"), Text("unlocked")}
      [] n = LEASE_STATE -> {Text("available"), Text("leased"), Text("expired"), Text("breaking"), Text("broken")}
      [] n = LEASE_DURATION -> {Text("infinite"), Text("fixed")}
      [] n = BLOB_PUBLIC_ACCESS -> {Text("none"), Text("container"), Text("blob")}
      [] n = HAS_IMMUTABILITY_POLICY -> {Text("true"), Text("false")}
      [] n = HAS_LEGAL_HOLD -> {Text("true"), Text("false")}

\* every header of h is well-formed in what from_response reads of it: the
\* first value of a named header, every value of a metadata header
AllPresentWellFormed(h) ==
    \A n \in DOMAIN h :
        IF starts_with(n, META_PREFIX)
        THEN \A i \in 1 .. Len(h[n]) : AllVisible(h[n][i])
        ELSE h[n][1] \in WellFormedValues(n)

\* C7: with exactly one mandatory header absent and every other header
\* present and well-formed, from_response fails with MissingHeaderError
\* carrying the name of the absent header.
C7_MissingHeaderNamed ==
    (IsSome(headers) /\ IsSome(decoded)) =>
        LET h == headers[1]
            missing == MandatoryHeaders \ DOMAIN h
        IN  (Cardinality(missing) = 1 /\ AllPresentWellFormed(h)) =>
                /\ ~decoded[1].ok
                /\ decoded[1].val[1] = "MissingHeaderError"
                /\ \A n \in missing : decoded[1].val[2] = n

C7_Witness ==
    /\ IsSome(headers)
    /\ IsSome(decoded)
    /\ MandatoryHeaders \ DOMAIN headers[1] = {LEASE_STATE}
    /\ Len(headers[1][ETAG]) = 2
    /\ OptionalHeaders \subseteq DOMAIN headers[1]
    /\ AllPresentWellFormed(headers[1])
    /\ ~decoded[1].ok
    /\ decoded[1].val[2] = LEASE_STATE

\* a header name with the metadata prefix removed
StripMetaPrefix(n) == SubSeq(n, Len(META_PREFIX) + 1, Len(n))

MetaHeaders(h) == {n \in DOMAIN h : starts_with(n, META_PREFIX)}

\* C8: the metadata map of the decoded entity has one entry per header
\* carrying the metadata prefix, keyed by the header name with the prefix
\* stripped and holding the value of the header (the last one when the
\* name is repeated); other headers contribute no entry.
C8_MetadataKeysStripped ==
    (IsSome(headers) /\ IsSome(decoded) /\ decoded[1].ok) =>
        LET h == headers[1]
            md == decoded[1].val.metadata
        IN  /\ DOMAIN md = {StripMetaPrefix(n) : n \in MetaHeaders(h)}
            /\ \A n \in MetaHeaders(h) : md[StripMetaPrefix(n)] = h[n][Len(h[n])]

(* ================== properties of both decode paths ==================== *)
MandatoryElements ==
    {Text("Last-Modified"), Text("Etag"), Text("LeaseState"), Text("LeaseStatus"), Text("HasImmutabilityPolicy"),
     Text("HasLegalHold")}

\* the element names found under <Properties> of a <Container> element
PropertyNames(e) ==
    LET props == find_subnodes(e, Text("Properties"))[1].children
    IN  {props[i].name : i \in 1 .. Len(props)}

HasChild(e, name) == Len(find_subnodes(e, name)) > 0

\* the errors that report a header or an element that is not there
AbsenceErrors == {"MissingHeaderError", "PathNotFound"}

\* C9: in both decode paths an absent optional field gives its default
\* (lease_duration None, public_access PublicAccess::None) and never an
\* absence error, while an absent mandatory field gives an error.
C9_OptionalAbsentIsDefault ==
    /\ (IsSome(headers) /\ IsSome(decoded)) =>
          LET h == headers[1]
              r == decoded[1]
          IN  /\ (r.ok /\ LEASE_DURATION \notin DOMAIN h) => r.val.lease_duration = None
              /\ (r.ok /\ BLOB_PUBLIC_ACCESS \notin DOMAIN h) => r.val.public_access = "None"
              /\ (~r.ok /\ r.val[1] \in AbsenceErrors) => r.val[2] \in MandatoryHeaders \ DOMAIN h
              /\ (MandatoryHeaders \subseteq DOMAIN h /\ OptionalHeaders \cap DOMAIN h = {}
                    /\ AllPresentWellFormed(h)) => r.ok
              /\ MandatoryHeaders \ DOMAIN h # {} => ~r.ok
    /\ (IsSome(xml_elem) /\ IsSome(parsed)) =>
          LET e == xml_elem[1]
              r == parsed[1]
          IN  /\ (r.ok /\ Text("LeaseDuration") \notin PropertyNames(e)) => r.val.lease_duration = None
              /\ (r.ok /\ Text("PublicAccess") \notin PropertyNames(e)) => r.val.public_access = "None"
              /\ (~r.ok /\ r.val[1] \in AbsenceErrors) =>
                    r.val[2] \in ({Text("Name")} \cup MandatoryElements) \ ({Text("LeaseDuration"), Text("PublicAccess")})
              /\ (MandatoryElements \ PropertyNames(e) # {} \/ ~HasChild(e, Text("Name"))) => ~r.ok

C9_Witness ==
    /\ IsSome(xml_elem)
    /\ IsSome(parsed)
    /\ parsed[1].ok
    /\ Text("LeaseDuration") \notin PropertyNames(xml_elem[1])
    /\ Text("PublicAccess") \notin PropertyNames(xml_elem[1])
    /\ parsed[1].val.lease_duration = None
    /\ parsed[1].val.public_access = "None"

(* ===================== properties of the XML decode ==================== *)
\* the child nodes of the Metadata nodes of a <Container> element
MetadataKids(e) == ChildrenOfAll(find_subnodes(e, Text("Metadata")))

FooBar == ElementNode(Text("Metadata"), <<Leaf(Text("foo"), Text("bar"))>>)

\* C10: parse maps the name of each child element of the Metadata node to
\* its text content (the last one for a repeated name); without a Metadata
\* node the map is empty and <Metadata><foo>bar</foo></Metadata> gives
\* exactly {foo: bar}.
C10_MetadataFromXml ==
    (IsSome(xml_elem) /\ IsSome(parsed) /\ parsed[1].ok) =>
        LET e == xml_elem[1]
            md == parsed[1].val.metadata
            kids == MetadataKids(e)
        IN  /\ ~HasChild(e, Text("Metadata")) => DOMAIN md = {}
            /\ find_subnodes(e, Text("Metadata")) = <<FooBar>> =>
                  DOMAIN md = {Text("foo")} /\ md[Text("foo")] = Text("bar")
            /\ DOMAIN md = {kids[i].name : i \in 1 .. Len(kids)}
            /\ \A i \in 1 .. Len(kids) :
                  (\A j \in (i + 1) .. Len(kids) : kids[j].name # kids[i].name) =>
                      md[kids[i].name] = kids[i].children[1].text

C10_Witness ==
    /\ IsSome(xml_elem)
    /\ IsSome(parsed)
    /\ parsed[1].ok
    /\ find_subnodes(xml_elem[1], Text("Metadata")) = <<FooBar>>
    /\ parsed[1].val.metadata = (Text("foo") :> Text("bar"))

(* ================= properties of the order of decoding ================= *)
\* the field extractions of parse, in the order the code makes them
XmlSteps(e) ==
    << cast_must(e, <<Text("Name")>>, "String"),
       cast_must(e, <<Text("Properties"), Text("Last-Modified")>>, "DateTime<Utc>"),
       cast_must(e, <<Text("Properties"), Text("Etag")>>, "String"),
       cast_must(e, <<Text("Properties"), Text("LeaseState")>>, "LeaseState"),
       cast_optional(e, <<Text("Properties"), Text("LeaseDuration")>>, "LeaseDuration"),
       cast_must(e, <<Text("Properties"), Text("LeaseStatus")>>, "LeaseStatus"),
       cast_optional(e, <<Text("Properties"), Text("PublicAccess")>>, "PublicAccess"),
       cast_must(e, <<Text("Properties"), Text("HasImmutabilityPolicy")>>, "bool"),
       cast_must(e, <<Text("Properties"), Text("HasLegalHold")>>, "bool"),
       MetadataFromXml(e) >>

\* every field that parse extracts before the metadata block decodes
FieldsBeforeMetadataOk(e) == \A i \in 1 .. 9 : XmlSteps(e)[i].ok

\* a metadata child element without children
EmptyMetadataKid(k) == k.kind = "ElementNode" /\ Len(k.children) = 0

\* a metadata child element whose content is not one single text node
NotSingleText(k) ==
    /\ k.kind = "ElementNode"
    /\ ~(Len(k.children) = 1 /\ k.children[1].kind = "CharacterNode")

\* a metadata child element whose first child is not a text node
FirstNotText(k) ==
    /\ k.kind = "ElementNode"
    /\ Len(k.children) > 0
    /\ k.children[1].kind # "CharacterNode"

\* C11 as stated: a metadata child element with no children, or whose
\* content is not a single text node, makes the whole parse fail.
C11_Original_NotSingleTextFails ==
    (IsSome(xml_elem) /\ IsSome(parsed)) =>
        LET kids == MetadataKids(xml_elem[1])
        IN  (\E i \in 1 .. Len(kids) : EmptyMetadataKid(kids[i]) \/ NotSingleText(kids[i]))
                => ~parsed[1].ok

\* C11: a metadata child element with no children, or whose first child is
\* not a text node, makes the whole parse fail; when every earlier field
\* decodes the error is UnexpectedXMLError. Content that starts with a text
\* node and goes on with other nodes is accepted with that text.
C11_EmptyOrFirstNotTextFails ==
    (IsSome(xml_elem) /\ IsSome(parsed)) =>
        LET e == xml_elem[1]
            r == parsed[1]
            kids == MetadataKids(e)
            offending == {i \in 1 .. Len(kids) :
                             EmptyMetadataKid(kids[i]) \/ FirstNotText(kids[i])}
        IN  /\ offending # {} => ~r.ok
            /\ (offending # {} /\ FieldsBeforeMetadataOk(e)) =>
                  r.val[1] = "UnexpectedXMLError"
            /\ (r.ok /\ Len(kids) = 1 /\ NotSingleText(kids[1])) =>
                  r.val.metadata = (kids[1].name :> kids[1].children[1].text)

\* an empty metadata element refused by parse after all its other fields decoded
C11_Witness ==
    /\ IsSome(xml_elem)
    /\ IsSome(parsed)
    /\ FieldsBeforeMetadataOk(xml_elem[1])
    /\ \E i \in 1 .. Len(MetadataKids(xml_elem[1])) :
          EmptyMetadataKid(MetadataKids(xml_elem[1])[i])
    /\ ~parsed[1].ok
    /\ parsed[1].val = <<"UnexpectedXMLError", "Metadata node should not be empty">>

\* the field extractions of from_response, in the order the code makes them
HeaderSteps(h) ==
    LET must(n) == RequireHeader(h, n)
        then_date(r) == IF r.ok THEN parse_from_rfc2822(r.val) ELSE r
        then_enum(r, enum) == IF r.ok THEN enum_from_str(enum, r.val) ELSE r
        then_bool(r) == IF r.ok THEN bool_from_str(r.val) ELSE r
    IN  << then_date(must(LAST_MODIFIED)),
           must(ETAG),
           then_enum(must(LEASE_STATUS), LeaseStatusEnum),
           then_enum(must(LEASE_STATE), LeaseStateEnum),
           LeaseDurationFromHeader(h),
           public_access_from_header(h),
           then_bool(must(HAS_IMMUTABILITY_POLICY)),
           then_bool(must(HAS_LEGAL_HOLD)),
           MetadataFromHeaders(h) >>

Failing(steps) == {i \in 1 .. Len(steps) : ~steps[i].ok}

FirstFailing(steps) == CHOOSE i \in Failing(steps) : \A j \in Failing(steps) : i <= j

ContainerFields ==
    {"name", "last_modified", "e_tag", "lease_status", "lease_state", "lease_duration",
     "public_access", "has_immutability_policy", "has_legal_hold", "metadata"}

\* the decode result is the error of the first failing extraction, whatever
\* the later fields hold, or an entity with every field filled
FailFast(r, steps) ==
    IF Failing(steps) # {}
    THEN ~r.ok /\ r = steps[FirstFailing(steps)]
    ELSE r.ok /\ DOMAIN r.val = ContainerFields

\* C12: from_response and parse fail fast: the first failing field
\* extraction, in the order of the code, ends the decode with its error
\* whatever the later fields hold, and the result is either that error or a
\* Container with every field filled from its extraction.
C12_FailFast ==
    /\ (IsSome(headers) /\ IsSome(decoded)) =>
          LET st == HeaderSteps(headers[1])
              r == decoded[1]
          IN  /\ FailFast(r, st)
              /\ r.ok =>
                    /\ r.val.name \in ContainerNames
                    /\ r.val.last_modified = st[1].val
                    /\ r.val.e_tag = st[2].val
                    /\ r.val.lease_status = st[3].val
                    /\ r.val.lease_state = st[4].val
                    /\ r.val.lease_duration = st[5].val
                    /\ r.val.public_access = st[6].val
                    /\ r.val.has_immutability_policy = st[7].val
                    /\ r.val.has_legal_hold = st[8].val
                    /\ r.val.metadata = st[9].val
    /\ (IsSome(xml_elem) /\ IsSome(parsed)) =>
          LET st == XmlSteps(xml_elem[1])
              r == parsed[1]
          IN  /\ FailFast(r, st)
              /\ r.ok =>
                    /\ r.val.name = st[1].val
                    /\ r.val.last_modified = st[2].val
                    /\ r.val.e_tag = st[3].val
                    /\ r.val.lease_state = st[4].val
                    /\ r.val.lease_duration = st[5].val
                    /\ r.val.lease_status = st[6].val
                    /\ r.val.public_access =
                          (IF IsSome(st[7].val) THEN st[7].val[1] ELSE "None")
                    /\ r.val.has_immutability_policy = st[8].val
                    /\ r.val.has_legal_hold = st[9].val
                    /\ r.val.metadata = st[10].val

\* a response without Last-Modified and without ETag decoded to the error
\* of the Last-Modified extraction
C12_Witness ==
    /\ IsSome(headers)
    /\ IsSome(decoded)
    /\ {1, 2} \subseteq Failing(HeaderSteps(headers[1]))
    /\ decoded[1] = Err("MissingHeaderError", LAST_MODIFIED)

(* ================== properties of the request life cycle =============== *)
\* C13: finalize consumes its builder and issues exactly one request: the
\* count of requests goes from 0 to 1 in the finalize step and never moves
\* again, whether the returned future is dropped or resolves to a transport
\* error, an unexpected status, a decode error or a success; after
\* finalize no builder operation is possible, and an outcome once produced
\* is final.
C13_OneRequestNoRetry ==
    /\ [](requests_sent \in {0, 1})
    /\ []((pc = "building") <=> (requests_sent = 0 /\ request = None))
    /\ []((pc = "done") <=> IsSome(outcome))
    /\ [](pc # "building" =>
            /\ requests_sent = 1
            /\ request = Some(FinalizeRequest(builder))
            /\ ~ENABLED Finalize
            /\ ~ENABLED WithContainerName /\ ~ENABLED WithBlobName /\ ~ENABLED WithLeaseId
            /\ ~ENABLED WithTimeout /\ ~ENABLED WithClientRequestId)
    /\ [](pc \in {"done", "dropped"} => ~ENABLED Next)
    /\ [][/\ requests_sent' # requests_sent =>
                (pc = "building" /\ pc' = "pending" /\ requests_sent' = requests_sent + 1)
          /\ IsSome(outcome) => outcome' = outcome
          /\ IsSome(request) => request' = request]_vars

\* a finalized builder whose response had the expected status and failed to
\* decode: one request sent, the error is the outcome
C13_Witness ==
    /\ pc = "done"
    /\ requests_sent = 1
    /\ IsSome(outcome)
    /\ outcome[1].transport.ok
    /\ outcome[1].transport.val.status = StatusOK
    /\ ~outcome[1].result.ok

(* =================== properties of repeated mutators =================== *)
\* the values of the headers called name, in order
HeaderValues(hdrs, name) ==
    LET sel == SelectSeq(hdrs, LAMBDA hd : hd[1] = name)
    IN  [i \in 1 .. Len(sel) |-> sel[i][2]]

\* the pairs of the query string whose key is key
PairsOf(uri, key) == SelectSeq(QueryPairs(uri), LAMBDA pr : starts_with(pr, key \o Text("=")))

\* C14: an optional mutator called again is last-write-wins: the builder
\* holds the argument of the last with_timeout (with_client_request_id)
\* call, whatever mutators ran in between, and the finalized request
\* carries the field once, with that value.
C14_LastWriteWins ==
    /\ Applied("with_timeout") => builder.timeout = Some(LastArg("with_timeout"))
    /\ Applied("with_client_request_id") =>
          builder.client_request_id = Some(LastArg("with_client_request_id"))
    /\ (IsSome(request) /\ Applied("with_timeout")) =>
          PairsOf(request[1].uri, Text("timeout")) =
              <<Text("timeout=") \o DecStr(LastArg("with_timeout"))>>
    /\ (IsSome(request) /\ Applied("with_client_request_id")) =>
          HeaderValues(request[1].headers, CLIENT_REQUEST_ID) =
              <<LastArg("with_client_request_id")>>

\* with_timeout called twice with different values and another mutator in
\* between, then finalized
C14_Witness ==
    /\ pc = "done"
    /\ \E i, j, k \in 1 .. Len(calls) :
          /\ i < j /\ j < k
          /\ calls[i][1] = "with_timeout"
          /\ calls[j][1] # "with_timeout"
          /\ calls[k][1] = "with_timeout"
          /\ calls[i][2] # calls[k][2]
          /\ builder.timeout = Some(calls[k][2])
          /\ PairsOf(request[1].uri, Text("timeout")) = <<Text("timeout=") \o DecStr(calls[k][2])>>

(* =================== properties of the request headers ================= *)
\* C15: the request built by finalize carries exactly one lease-id header
\* (the lease id of the builder), exactly one lease-action header with the
\* value release, a client-request-id header exactly when
\* with_client_request_id was called (once, never twice), and nothing else
\* written by the closure.
C15_HeadersByCapability ==
    IsSome(request) =>
        LET hdrs == request[1].headers
        IN  /\ HeaderValues(hdrs, LEASE_ID) = <<LastArg("with_lease_id")>>
            /\ HeaderValues(hdrs, LEASE_ACTION) = <<Text("release")>>
            /\ HeaderCount(hdrs, CLIENT_REQUEST_ID) \in {0, 1}
            /\ HeaderCount(hdrs, CLIENT_REQUEST_ID) = 1 <=> Applied("with_client_request_id")
            /\ Len(hdrs) = 2 + HeaderCount(hdrs, CLIENT_REQUEST_ID)

\* a finalized request with the three headers, the client request id among them
C15_Witness ==
    /\ pc = "done"
    /\ Applied("with_client_request_id")
    /\ Len(request[1].headers) = 3
    /\ HeaderValues(request[1].headers, LEASE_ACTION) = <<Text("release")>>
    /\ HeaderCount(request[1].headers, CLIENT_REQUEST_ID) = 1

(* ================ properties of interleaved builder chains ============= *)
\* the argument of the last call of op among the calls cs, None without one
LastArgOf(cs, op) ==
    LET made == {i \in 1 .. Len(cs) : cs[i][1] = op}
    IN  IF made = {} THEN None
        ELSE Some(cs[CHOOSE i \in made : \A j \in made : j <= i][2])

MarkerAfter(cs, op) == IF IsSome(LastArgOf(cs, op)) THEN Yes ELSE No

\* what a chain holds when its calls cs run alone from new: a marker is Yes
\* when its mutator was called, every value is the argument of the last
\* call of its mutator, and the client is the one the chain started from
AloneFromNew(cs) ==
    [client |-> TheClient,
     p_container_name |-> MarkerAfter(cs, "with_container_name"),
     p_blob_name |-> MarkerAfter(cs, "with_blob_name"),
     p_lease_id |-> MarkerAfter(cs, "with_lease_id"),
     container_name |-> LastArgOf(cs, "with_container_name"),
     blob_name |-> LastArgOf(cs, "with_blob_name"),
     lease_id |-> LastArgOf(cs, "with_lease_id"),
     timeout |-> LastArgOf(cs, "with_timeout"),
     client_request_id |-> LastArgOf(cs, "with_client_request_id")]

\* C16: two builder chains started from the same client and advanced in
\* any interleaving never affect each other: after every interleaving the
\* markers, mandatory values and optional values of each chain are those
\* its own calls give when run alone from new, whatever the other chain
\* was given, and a step of one chain leaves the builder of the other as
\* it was.
C16_ChainsIndependent ==
    /\ [](\A c \in ChainIds : chains[c] = AloneFromNew(chain_calls[c]))
    /\ [][\A c \in ChainIds :
            chain_log' = Append(chain_log, c) =>
                \A d \in ChainIds \ {c} :
                    chains'[d] = chains[d] /\ chain_calls'[d] = chain_calls[d]]_vars

\* the two chains advanced in turn, the first setting its lease id and then
\* its container name, the second its lease id and its timeout: each holds
\* what it was given and nothing of the other
C16_Witness ==
    /\ chain_log = <<1, 2, 1, 2>>
    /\ chain_calls[1][1][1] = "with_lease_id"
    /\ chain_calls[1][2][1] = "with_container_name"
    /\ chains[1].p_lease_id = Yes
    /\ chains[1].lease_id = Some(Text("lease-1"))
    /\ chains[1].p_container_name = Yes
    /\ chains[1].timeout = None
    /\ chains[2].p_lease_id = Yes
    /\ chains[2].lease_id = Some(Text("lease-2"))
    /\ chains[2].timeout = Some(30)
    /\ chains[2].p_container_name = No

(* ==================== properties of the request URI ==================== *)
\* the part of a URI before its first question mark
PathOf(uri) ==
    LET q == IndexFrom(uri, Chr("?"), 1)
    IN  IF q = 0 THEN uri ELSE SubSeq(uri, 1, q - 1)

CountChar(s, ch) == Cardinality({i \in 1 .. Len(s) : s[i] = ch})

\* C18: the query string of the URI built by finalize starts with
\* comp=lease; when a timeout was set it goes on with &timeout=<value> and
\* nothing more, and when none was set it is exactly comp=lease. The query
\* string follows the one question mark of the URI, after the blob's path.
C18_QueryString ==
    IsSome(request) =>
        LET uri == request[1].uri
            q == QueryOf(uri)
        IN  /\ starts_with(q, Text("comp=lease"))
            /\ IsSome(builder.timeout) =>
                  q = Text("comp=lease") \o Text("&") \o Text("timeout=") \o DecStr(builder.timeout[1])
            /\ builder.timeout = None => q = Text("comp=lease")
            /\ CountChar(uri, Chr("?")) = 1
            /\ PathOf(uri) = generate_blob_uri(builder, None)
            /\ uri = PathOf(uri) \o Text("?") \o q

\* a finalized request with the timeout 30 after the marker
C18_Witness ==
    /\ pc = "done"
    /\ builder.timeout = Some(30)
    /\ QueryOf(request[1].uri) = Text("comp=lease&timeout=30")

(* ================= properties of the public access header ============== *)
\* the values a request builder holds under the public access header
PublicAccessValuesOf(b) ==
    IF BLOB_PUBLIC_ACCESS \in DOMAIN b.headers THEN b.headers[BLOB_PUBLIC_ACCESS] ELSE <<>>

\* the string of a public access value
PublicAccessString(pa) ==
    CASE pa = "None" -> Text("none")
      [] pa = "Container" -> Text("container")
      [] pa = "Blob" -> Text("blob")

\* the public access value of a string
PublicAccessOfString(s) ==
    CASE s = Text("none") -> "None"
      [] s = Text("container") -> "Container"
      [] s = Text("blob") -> "Blob"

\* C19 as stated: add_header writes the public-access header exactly once,
\* with the string of the value, whenever public access is Container or
\* Blob, and writes nothing for PublicAccess::None;
\* public_access_from_header gives PublicAccess::None for the absent header.
C19_Original_WritesOnceUnlessNone ==
    /\ IsSome(pa_request) =>
          LET pa == public_access[1]
              before == BuilderOfWritten(pa_request[1].before)
              after == BuilderOfWritten(pa_request[1].after)
          IN  /\ pa # "None" =>
                    PublicAccessValuesOf(after) =
                        Append(PublicAccessValuesOf(before), PublicAccessString(pa))
              /\ pa = "None" => after = before
    /\ IsSome(pa_decoded) =>
          LET after == BuilderOfWritten(pa_request[1].after)
          IN  PublicAccessValuesOf(after) = <<>> => pa_decoded[1] = Ok("None")

\* C19: on a request builder that holds no error add_header appends the
\* string of the value under the public-access name, once, after the values
\* the name already holds, for Container and Blob, and leaves every other
\* header as it was; on a builder that holds an error it writes nothing and
\* the error stays; for PublicAccess::None it leaves the builder as it was.
\* public_access_from_header gives PublicAccess::None for the absent header
\* and otherwise the value of the first string held under the name, so on a
\* builder that held no public-access header every value, None through the
\* absence of the header, decodes back to itself.
C19_PublicAccessHeader ==
    /\ IsSome(pa_request) =>
          LET pa == public_access[1]
              before == BuilderOfWritten(pa_request[1].before)
              after == BuilderOfWritten(pa_request[1].after)
          IN  /\ pa = "None" => after = before
              /\ (pa # "None" /\ IsSome(before.err)) => after = before
              /\ (pa # "None" /\ IsNone(before.err)) =>
                    /\ IsNone(after.err)
                    /\ PublicAccessValuesOf(after) =
                          Append(PublicAccessValuesOf(before), PublicAccessString(pa))
                    /\ DOMAIN after.headers = DOMAIN before.headers \cup {BLOB_PUBLIC_ACCESS}
                    /\ \A n \in DOMAIN before.headers \ {BLOB_PUBLIC_ACCESS} :
                          after.headers[n] = before.headers[n]
    /\ IsSome(pa_decoded) =>
          LET pa == public_access[1]
              before == BuilderOfWritten(pa_request[1].before)
              after == BuilderOfWritten(pa_request[1].after)
          IN  /\ IsNone(after.err)
              /\ PublicAccessValuesOf(after) = <<>> => pa_decoded[1] = Ok("None")
              /\ PublicAccessValuesOf(before) = <<>> => pa_decoded[1] = Ok(pa)
              /\ PublicAccessValuesOf(before) # <<>> =>
                    pa_decoded[1] = Ok(PublicAccessOfString(PublicAccessValuesOf(before)[1]))

\* PublicAccess::Container written after another header on a builder that
\* holds no error, and read back as PublicAccess::Container
C19_Witness ==
    /\ public_access = Some("Container")
    /\ IsSome(pa_request)
    /\ pa_request[1].before = <<<<Text("x-ms-version"), Text("2018-03-28")>>>>
    /\ PublicAccessValuesOf(BuilderOfWritten(pa_request[1].after)) = <<Text("container")>>
    /\ pa_decoded = Some(Ok("Container"))

(* ================= properties of the mandatory markers ================= *)
MandatoryFields == {"container_name", "blob_name", "lease_id"}

MarkerOf(b, f) ==
    CASE f = "container_name" -> b.p_container_name
      [] f = "blob_name" -> b.p_blob_name
      [] f = "lease_id" -> b.p_lease_id

SlotOf(b, f) ==
    CASE f = "container_name" -> b.container_name
      [] f = "blob_name" -> b.blob_name
      [] f = "lease_id" -> b.lease_id

\* the step is a call of with_<f>
CallOf(f) ==
    /\ Len(calls') = Len(calls) + 1
    /\ calls'[Len(calls')][1] = "with_" \o f

\* C20: the mandatory markers are monotone: no step takes a set marker back
\* to unset or empties its slot; on a builder still being built every
\* mandatory mutator can be called again on a field already set, and that
\* call keeps the marker set and stores its argument in place of the old
\* value.
C20_MarkersMonotone ==
    /\ [][\A f \in MandatoryFields :
            /\ MarkerOf(builder, f) = Yes =>
                  (MarkerOf(builder', f) = Yes /\ IsSome(SlotOf(builder', f)))
            /\ (MarkerOf(builder, f) = Yes /\ CallOf(f)) =>
                  SlotOf(builder', f) = Some(calls'[Len(calls')][2])]_vars
    /\ []((pc = "building" /\ Len(calls) < MaxCalls /\ AllThreeSet(builder)) =>
            (ENABLED WithContainerName /\ ENABLED WithBlobName /\ ENABLED WithLeaseId))

\* with_lease_id called twice with different values: marker set, latest value kept
C20_Witness ==
    \E i, j \in 1 .. Len(calls) :
        /\ i < j
        /\ calls[i][1] = "with_lease_id"
        /\ calls[j][1] = "with_lease_id"
        /\ \A k \in (j + 1) .. Len(calls) : calls[k][1] # "with_lease_id"
        /\ calls[i][2] # calls[j][2]
        /\ builder.p_lease_id = Yes
        /\ builder.lease_id = Some(calls[j][2])

(* ============ properties of the order of the header checks ============= *)
\* the headers in the order from_response checks them, the metadata
\* headers standing last under their prefix
CheckOrder ==
    <<LAST_MODIFIED, ETAG, LEASE_STATUS, LEASE_STATE, LEASE_DURATION, BLOB_PUBLIC_ACCESS,
      HAS_IMMUTABILITY_POLICY, HAS_LEGAL_HOLD, META_PREFIX>>

\* header n of the response h is absent though mandatory, or malformed in
\* what from_response reads of it: the first value held under a name, every
\* value held under the names with the metadata prefix
Offending(h, n) ==
    IF n = META_PREFIX
    THEN \E k \in DOMAIN h :
            starts_with(k, META_PREFIX) /\ \E i \in 1 .. Len(h[k]) : ~AllVisible(h[k][i])
    ELSE IF n \in DOMAIN h THEN h[n][1] \notin WellFormedValues(n)
    ELSE n \in MandatoryHeaders

\* the error that belongs to the offending header n
ErrorFor(h, n) ==
    IF n = META_PREFIX THEN <<"ToStrError", "header">>
    ELSE IF n \notin DOMAIN h THEN <<"MissingHeaderError", n>>
    ELSE IF ~AllVisible(h[n][1]) THEN <<"ToStrError", "header">>
    ELSE IF n = LAST_MODIFIED THEN <<"ParseError", "chrono">>
    ELSE IF n \in {HAS_IMMUTABILITY_POLICY, HAS_LEGAL_HOLD} THEN <<"ParseBoolError", h[n][1]>>
    ELSE <<"ParsingError", h[n][1]>>

\* C21: with any number of headers absent or malformed at once,
\* from_response reports the error of the first offending header in the
\* order Last-Modified, ETag, lease status, lease state, lease duration,
\* public access, has-immutability-policy, has-legal-hold, metadata, and
\* succeeds when none offends; a malformed Last-Modified date gives the
\* date parse error whatever later headers are missing.
C21_FirstOffendingHeader ==
    (IsSome(headers) /\ IsSome(decoded)) =>
        LET h == headers[1]
            r == decoded[1]
            off == {i \in 1 .. Len(CheckOrder) : Offending(h, CheckOrder[i])}
            first == CHOOSE i \in off : \A j \in off : i <= j
        IN  /\ off = {} <=> r.ok
            /\ off # {} => r.val = ErrorFor(h, CheckOrder[first])
            /\ (LAST_MODIFIED \in DOMAIN h /\ AllVisible(h[LAST_MODIFIED][1])
                  /\ h[LAST_MODIFIED][1] \notin WellFormedValues(LAST_MODIFIED)) =>
                  (~r.ok /\ r.val[1] = "ParseError")

\* a malformed Last-Modified date with the ETag and the lease state
\* missing and a metadata header held twice: the date parse error is reported
C21_Witness ==
    /\ IsSome(headers)
    /\ IsSome(decoded)
    /\ Text("x-ms-meta-foo") \in DOMAIN headers[1]
    /\ Len(headers[1][Text("x-ms-meta-foo")]) = 2
    /\ Get(headers[1], LAST_MODIFIED) = Some(Text("2019-01-01T00:00:00Z"))
    /\ {ETAG, LEASE_STATE} \cap DOMAIN headers[1] = {}
    /\ ~decoded[1].ok
    /\ decoded[1].val = <<"ParseError", "chrono">>
====
